---------------------------- MODULE Spec2Model ----------------------------
(***************************************************************************)
(* A model of mapjson: the JSON scanner (JsonTextTokenizer over a          *)
(* PushBackReader), the token stream with one-token pushback               *)
(* (JsonTokenizer), the tree builder (JsonReader), the serializer          *)
(* (JsonWriter) and the Map container.                                     *)
(*                                                                         *)
(* A character is its Unicode code point (a natural number); a text is a   *)
(* sequence of characters.  The input text is supplied piece by piece, on  *)
(* demand: the scanner reads strictly left to right, so a run on a text    *)
(* chosen up front is the run in which exactly that text is fed, and the   *)
(* run stops asking for input at its first error.  `text` holds what was   *)
(* fed, `eof` says that nothing follows it.                                *)
(***************************************************************************)
EXTENDS Integers, Sequences, FiniteSets, TLC

VARIABLES
    text,       \* the input text (&str) as fed so far
    eof,        \* TRUE once the text is complete
    npieces,    \* number of pieces the text was fed in
    pieces,     \* the pieces the text is made of
    tokenizer,  \* JsonTokenizer: buffered_token, object_depth, proxy
    last,       \* result of the latest JsonTokenizer call made by a test driver
    stack,      \* activations of JsonReader::parse and the functions below it
    obj,        \* the Map handed to JsonReader::parse (&mut Map)
    obj0,       \* that Map as it was before the call
    settings,   \* JsonReaderSettings
    result,     \* what Map::merge_with_settings returned, or "pending"
    calls,      \* the latest JsonTokenizer calls of a driver that calls it directly
    other       \* the Map handed to Map::merge_from

vars == <<text, eof, npieces, pieces, tokenizer, last, stack, obj, obj0, settings, result, calls,
          other>>

---------------------------------------------------------------------------
(* Characters *)

\* `c as u32` for the characters the model names
Ord(s) ==
    CASE s = "\t" -> 9   [] s = "\n" -> 10  [] s = "\r" -> 13  [] s = " " -> 32
      [] s = "\"" -> 34  [] s = "+" -> 43   [] s = "," -> 44   [] s = "-" -> 45
      [] s = "." -> 46   [] s = "/" -> 47   [] s = "0" -> 48   [] s = "1" -> 49
      [] s = "2" -> 50   [] s = "3" -> 51   [] s = "4" -> 52   [] s = "5" -> 53
      [] s = "6" -> 54   [] s = "7" -> 55   [] s = "8" -> 56   [] s = "9" -> 57
      [] s = ":" -> 58   [] s = "A" -> 65   [] s = "E" -> 69   [] s = "F" -> 70
      [] s = "L" -> 76   [] s = "N" -> 78   [] s = "S" -> 83
      [] s = "g" -> 103  [] s = "h" -> 104  [] s = "o" -> 111
      [] s = "[" -> 91   [] s = "\\" -> 92  [] s = "]" -> 93   [] s = "a" -> 97
      [] s = "b" -> 98   [] s = "c" -> 99   [] s = "d" -> 100  [] s = "e" -> 101
      [] s = "f" -> 102  [] s = "i" -> 105  [] s = "l" -> 108
      [] s = "n" -> 110  [] s = "r" -> 114  [] s = "s" -> 115  [] s = "t" -> 116
      [] s = "u" -> 117  [] s = "x" -> 120  [] s = "{" -> 123  [] s = "}" -> 125

\* a text given as a tuple of one-character strings
Chars(ss) == [i \in 1..Len(ss) |-> Ord(ss[i])]

\* Option<char>::None
NoChar == -1

\* `let x = ...;` followed by the code K that uses x: x is evaluated once,
\* before K
Bind(x, K(_)) == CHOOSE y \in {K(v) : v \in {x}} : TRUE

\* the same for a step: K(x) says what the variables become
BindStep(x, K(_)) == \E v \in {x} : K(v)

---------------------------------------------------------------------------
(* PushBackReader *)

\* PushBackReader::new
reader_new == [pos |-> 1, next_char |-> NoChar]

\* PushBackReader::read_char.  pos is the index of the next character of
\* the text; pos = Len(txt) + 2 once the iterator has returned None.
read_char(rd, txt) ==
    IF rd.next_char # NoChar
    THEN [c |-> rd.next_char, rd |-> [rd EXCEPT !.next_char = NoChar]]
    ELSE IF rd.pos <= Len(txt)
         THEN [c |-> txt[rd.pos], rd |-> [rd EXCEPT !.pos = @ + 1]]
         ELSE [c |-> NoChar, rd |-> [rd EXCEPT !.pos = Len(txt) + 2]]

\* PushBackReader::push_back
reader_push_back(rd, c) ==
    IF rd.next_char # NoChar
    THEN [ok |-> FALSE, err |-> "Cannot push back when already buffering a character", rd |-> rd]
    ELSE [ok |-> TRUE, err |-> "", rd |-> [rd EXCEPT !.next_char = c]]

---------------------------------------------------------------------------
(* JsonToken *)

Tok(type) == [type |-> type, text |-> <<>>]
TokText(type, s) == [type |-> type, text |-> s]

---------------------------------------------------------------------------
(* JsonTextTokenizer *)

\* JsonTextTokenizer::VALUE_STATES
VALUE_STATES == {"ARRAY_START", "ARRAY_AFTER_COMMA", "OBJECT_AFTER_COLON", "START_OF_DOCUMENT"}

\* JsonTextTokenizer::new
text_tokenizer_new ==
    [container_stack |-> <<"Document">>, reader |-> reader_new, state |-> "START_OF_DOCUMENT"]

\* a validate_state that lets a closing bracket close either kind of container
validate_state_either_container(tk, valid_state) ==
    tk.state \in valid_state \cup
        (IF valid_state \in {{"OBJECT_AFTER_PROPERTY", "OBJECT_START"}, {"ARRAY_AFTER_VALUE", "ARRAY_START"}}
         THEN {"OBJECT_AFTER_PROPERTY", "OBJECT_START", "ARRAY_AFTER_VALUE", "ARRAY_START"}
         ELSE {})

\* a validate_state that lets a comma come first in a container
validate_state_leading_comma(tk, valid_state) ==
    tk.state \in valid_state \cup
        (IF valid_state = {"OBJECT_AFTER_PROPERTY", "ARRAY_AFTER_VALUE"}
         THEN {"OBJECT_START", "ARRAY_START"}
         ELSE {})

\* a validate_state that lets a colon follow a property
validate_state_colon_after_property(tk, valid_state) ==
    tk.state \in valid_state \cup
        (IF valid_state = {"OBJECT_BEFORE_COLON"} THEN {"OBJECT_AFTER_PROPERTY"} ELSE {})

\* a validate_state that lets the document end inside an array
validate_state_end_in_array(tk, valid_state) ==
    tk.state \in valid_state \cup
        (IF valid_state = {"EXPECTED_END_OF_DOCUMENT"}
         THEN {"ARRAY_START", "ARRAY_AFTER_VALUE"}
         ELSE {})

\* a validate_state that lets a brace close the document
validate_state_closing_document(tk, valid_state) ==
    tk.state \in valid_state \cup
        (IF valid_state = {"OBJECT_AFTER_PROPERTY", "OBJECT_START"}
         THEN {"EXPECTED_END_OF_DOCUMENT"}
         ELSE {})

\* JsonTextTokenizer::validate_state: Ok iff the state is one of valid_state
validate_state(tk, valid_state) == tk.state \in valid_state

\* the outcome of a scanning step: Ok(val) or Err(err), and the reader after it
ScanOk(val, rd) == [ok |-> TRUE, err |-> "", val |-> val, rd |-> rd]
ScanErr(err, rd) == [ok |-> FALSE, err |-> err, val |-> <<>>, rd |-> rd]

IsDigit(c) == ~(c < Ord("0") \/ c > Ord("9"))

\* JsonTextTokenizer::consume_digits: (the first character that is no digit, count == 0)
RECURSIVE consume_digits_loop(_, _, _, _)
consume_digits_loop(rd, builder, count, txt) ==
    Bind(read_char(rd, txt), LAMBDA next :
    IF next.c # NoChar /\ IsDigit(next.c)
    THEN consume_digits_loop(next.rd, Append(builder, next.c), count + 1, txt)
    ELSE [c |-> next.c, none |-> count = 0, rd |-> next.rd, builder |-> builder])

\* a consume_digits that pushes the character after the digits back itself
consume_digits_pushing_back(rd, builder, txt) ==
    Bind(consume_digits_loop(rd, builder, 0, txt), LAMBDA r :
    IF r.c = NoChar THEN r ELSE [r EXCEPT !.rd = reader_push_back(r.rd, r.c).rd])

consume_digits(rd, builder, txt) == consume_digits_loop(rd, builder, 0, txt)

\* the outcome of a part of a number: Ok(c) with the builder, or Err
NumOk(c, rd, builder) == [ok |-> TRUE, err |-> "", c |-> c, rd |-> rd, builder |-> builder]
NumErr(err, rd, builder) == [ok |-> FALSE, err |-> err, c |-> NoChar, rd |-> rd, builder |-> builder]

\* read_int without the leading-zero rule
read_int_any_digits(rd, builder, txt) ==
    Bind(read_char(rd, txt), LAMBDA first :
    IF first.c = NoChar THEN NumErr("Invalid numeric literal", first.rd, builder)
    ELSE IF ~IsDigit(first.c) THEN NumErr("Invalid numeric literal", first.rd, builder)
    ELSE
    Bind(consume_digits(first.rd, Append(builder, first.c), txt), LAMBDA res :
    NumOk(res.c, res.rd, res.builder)))

\* JsonTextTokenizer::read_int
read_int(rd, builder, txt) ==
    Bind(read_char(rd, txt), LAMBDA first :
    IF first.c = NoChar THEN NumErr("Invalid numeric literal", first.rd, builder)
    ELSE IF ~IsDigit(first.c) THEN NumErr("Invalid numeric literal", first.rd, builder)
    ELSE
    Bind(consume_digits(first.rd, Append(builder, first.c), txt), LAMBDA res :
    IF first.c = Ord("0") /\ ~res.none
    THEN NumErr("Invalid numeric literal: leading 0 for non-zero value.", res.rd, res.builder)
    ELSE NumOk(res.c, res.rd, res.builder)))

\* a read_frac that accepts a '.' with no digit after it
read_frac_allowing_no_digits(rd, builder, txt) ==
    Bind(consume_digits(rd, Append(builder, Ord(".")), txt), LAMBDA res :
    NumOk(res.c, res.rd, res.builder))

\* JsonTextTokenizer::read_frac
read_frac(rd, builder, txt) ==
    Bind(consume_digits(rd, Append(builder, Ord(".")), txt), LAMBDA res :
    IF res.none
    THEN NumErr("Invalid numeric literal: fraction with no trailing digits", res.rd, res.builder)
    ELSE NumOk(res.c, res.rd, res.builder))

\* a read_exp that accepts an exponent marker with no digit after it
read_exp_allowing_no_digits(rd, builder, txt) ==
    Bind(read_char(rd, txt), LAMBDA next :
    IF next.c = NoChar THEN NumOk(NoChar, next.rd, Append(builder, Ord("E")))
    ELSE
    Bind(IF next.c = Ord("-") \/ next.c = Ord("+")
         THEN [rd |-> next.rd, builder |-> Append(Append(builder, Ord("E")), next.c)]
         ELSE [rd |-> reader_push_back(next.rd, next.c).rd,
               builder |-> Append(builder, Ord("E"))], LAMBDA pb :
    Bind(consume_digits(pb.rd, pb.builder, txt), LAMBDA res :
    NumOk(res.c, res.rd, res.builder))))

\* JsonTextTokenizer::read_exp
read_exp(rd, builder, txt) ==
    Bind(read_char(rd, txt), LAMBDA next :
    IF next.c = NoChar
    THEN NumErr("Invalid numeric literal: exponent with no trailing digits",
                next.rd, Append(builder, Ord("E")))
    ELSE
    Bind(IF next.c = Ord("-") \/ next.c = Ord("+")
         THEN [ok |-> TRUE, err |-> "", rd |-> next.rd,
               builder |-> Append(Append(builder, Ord("E")), next.c)]
         ELSE [ok |-> reader_push_back(next.rd, next.c).ok,
               err |-> reader_push_back(next.rd, next.c).err,
               rd |-> reader_push_back(next.rd, next.c).rd,
               builder |-> Append(builder, Ord("E"))], LAMBDA pb :
    IF ~pb.ok THEN NumErr(pb.err, pb.rd, pb.builder)
    ELSE
    Bind(consume_digits(pb.rd, pb.builder, txt), LAMBDA res :
    IF res.none
    THEN NumErr("Invalid numeric literal: exponent without value", res.rd, res.builder)
    ELSE NumOk(res.c, res.rd, res.builder))))

\* a read_number that drops the character that ended the number
read_number_dropping_terminator(rd, initial_character, txt) ==
    Bind(IF initial_character = Ord("-") THEN [ok |-> TRUE, err |-> "", rd |-> rd]
         ELSE reader_push_back(rd, initial_character), LAMBDA pb0 :
    IF ~pb0.ok THEN ScanErr(pb0.err, pb0.rd)
    ELSE
    Bind(read_int(pb0.rd, IF initial_character = Ord("-") THEN <<Ord("-")>> ELSE <<>>, txt),
         LAMBDA int :
    IF ~int.ok THEN ScanErr(int.err, int.rd)
    ELSE
    Bind(IF int.c = Ord(".") THEN read_frac(int.rd, int.builder, txt) ELSE int, LAMBDA frac :
    IF ~frac.ok THEN ScanErr(frac.err, frac.rd)
    ELSE
    Bind(IF frac.c = Ord("e") \/ frac.c = Ord("E")
         THEN read_exp(frac.rd, frac.builder, txt) ELSE frac, LAMBDA exp :
    IF ~exp.ok THEN ScanErr(exp.err, exp.rd) ELSE ScanOk(exp.builder, exp.rd)))))

\* JsonTextTokenizer::read_number
read_number(rd, initial_character, txt) ==
    Bind(IF initial_character = Ord("-") THEN [ok |-> TRUE, err |-> "", rd |-> rd]
         ELSE reader_push_back(rd, initial_character), LAMBDA pb0 :
    IF ~pb0.ok THEN ScanErr(pb0.err, pb0.rd)
    ELSE
    Bind(read_int(pb0.rd, IF initial_character = Ord("-") THEN <<Ord("-")>> ELSE <<>>, txt),
         LAMBDA int :
    IF ~int.ok THEN ScanErr(int.err, int.rd)
    ELSE
    Bind(IF int.c = Ord(".") THEN read_frac(int.rd, int.builder, txt) ELSE int, LAMBDA frac :
    IF ~frac.ok THEN ScanErr(frac.err, frac.rd)
    ELSE
    Bind(IF frac.c = Ord("e") \/ frac.c = Ord("E")
         THEN read_exp(frac.rd, frac.builder, txt) ELSE frac, LAMBDA exp :
    IF ~exp.ok THEN ScanErr(exp.err, exp.rd)
    ELSE
    Bind(IF exp.c # NoChar THEN reader_push_back(exp.rd, exp.c)
         ELSE [ok |-> TRUE, err |-> "", rd |-> exp.rd], LAMBDA pb :
    IF ~pb.ok THEN ScanErr(pb.err, pb.rd) ELSE ScanOk(exp.builder, pb.rd))))))

\* the value of a hexadecimal digit, or NoChar
Nybble(c) ==
    IF c >= Ord("0") /\ c <= Ord("9") THEN c - Ord("0")
    ELSE IF c >= Ord("a") /\ c <= Ord("f") THEN c - Ord("a") + 10
    ELSE IF c >= Ord("A") /\ c <= Ord("F") THEN c - Ord("A") + 10
    ELSE NoChar

\* `result as u8 as char`: the low eight bits of the accumulated value
AsU8(n) == n % 256

\* JsonTextTokenizer::read_unicode_escape
RECURSIVE read_unicode_escape_loop(_, _, _, _)
read_unicode_escape_loop(rd, res, left, txt) ==
    IF left = 0 THEN ScanOk(AsU8(res), rd)
    ELSE Bind(read_char(rd, txt), LAMBDA r :
         IF r.c = NoChar
         THEN ScanErr("Unexpected end of text while reading Unicode escape sequence", r.rd)
         ELSE IF Nybble(r.c) = NoChar
         THEN ScanErr("Invalid character in escape sequence", r.rd)
         ELSE read_unicode_escape_loop(r.rd, res * 16 + Nybble(r.c), left - 1, txt))

read_unicode_escape(rd, txt) == read_unicode_escape_loop(rd, 0, 4, txt)

\* a read_escaped_character that takes any other escaped character for itself
read_escaped_character_any_character(rd, txt) ==
    Bind(read_char(rd, txt), LAMBDA r :
    IF r.c = NoChar
    THEN ScanErr("Unexpected end of text while reading character escape sequence", r.rd)
    ELSE CASE r.c = Ord("n") -> ScanOk(10, r.rd)
           [] r.c = Ord("b") -> ScanOk(8, r.rd)
           [] r.c = Ord("f") -> ScanOk(12, r.rd)
           [] r.c = Ord("r") -> ScanOk(13, r.rd)
           [] r.c = Ord("t") -> ScanOk(9, r.rd)
           [] r.c = Ord("u") -> read_unicode_escape(r.rd, txt)
           [] OTHER -> ScanOk(r.c, r.rd))

\* JsonTextTokenizer::read_escaped_character
read_escaped_character(rd, txt) ==
    Bind(read_char(rd, txt), LAMBDA r :
    IF r.c = NoChar
    THEN ScanErr("Unexpected end of text while reading character escape sequence", r.rd)
    ELSE CASE r.c = Ord("n") -> ScanOk(10, r.rd)
           [] r.c = Ord("\\") -> ScanOk(Ord("\\"), r.rd)
           [] r.c = Ord("b") -> ScanOk(8, r.rd)
           [] r.c = Ord("f") -> ScanOk(12, r.rd)
           [] r.c = Ord("r") -> ScanOk(13, r.rd)
           [] r.c = Ord("t") -> ScanOk(9, r.rd)
           [] r.c = Ord("\"") -> ScanOk(Ord("\""), r.rd)
           [] r.c = Ord("/") -> ScanOk(Ord("/"), r.rd)
           [] r.c = Ord("u") -> read_unicode_escape(r.rd, txt)
           [] OTHER -> ScanErr("Invalid character in character escape sequence", r.rd))

\* JsonTextTokenizer::read_string
RECURSIVE read_string_loop(_, _, _)
read_string_loop(rd, val, txt) ==
    Bind(read_char(rd, txt), LAMBDA r :
    IF r.c = NoChar THEN ScanErr("Unexpected end of text while reading string", r.rd)
    ELSE IF r.c < Ord(" ") THEN ScanErr("Invalid character in string literal", r.rd)
    ELSE IF r.c = Ord("\"") THEN ScanOk(val, r.rd)
    ELSE IF r.c = Ord("\\")
         THEN Bind(read_escaped_character(r.rd, txt), LAMBDA e :
              IF ~e.ok THEN e ELSE read_string_loop(e.rd, Append(val, e.val), txt))
         ELSE read_string_loop(r.rd, Append(val, r.c), txt))

read_string(rd, txt) == read_string_loop(rd, <<>>, txt)

\* JsonTextTokenizer::consume_literal: lit is the literal without its first letter
RECURSIVE consume_literal_loop(_, _, _)
consume_literal_loop(rd, lit, txt) ==
    IF lit = <<>> THEN ScanOk(<<>>, rd)
    ELSE Bind(read_char(rd, txt), LAMBDA next :
         IF next.c = NoChar
         THEN ScanErr("Unexpected end of text while reading literal token", next.rd)
         ELSE IF next.c # Head(lit)
         THEN ScanErr("Unexpected character while reading literal token", next.rd)
         ELSE consume_literal_loop(next.rd, Tail(lit), txt))

\* a consume_literal that matches the second letter only
consume_literal_two_letters(rd, lit, txt) == consume_literal_loop(rd, <<lit[2]>>, txt)

consume_literal(rd, lit, txt) == consume_literal_loop(rd, Tail(lit), txt)

\* the outcome of next_impl: Ok(tok) or Err(err), and the tokenizer after it
TokOk(tok, tk) == [ok |-> TRUE, err |-> "", tok |-> tok, tk |-> tk]
TokErr(err, tk) == [ok |-> FALSE, err |-> err, tok |-> Tok("None"), tk |-> tk]

\* a validate_and_modify_state_for_value that takes a value after a property
validate_and_modify_state_for_value_after_property(tk, error_prefix, tok) ==
    IF tk.state = "OBJECT_AFTER_PROPERTY" THEN TokOk(tok, tk)
    ELSE IF ~validate_state(tk, VALUE_STATES) THEN TokErr(error_prefix, tk)
    ELSE TokOk(tok, [tk EXCEPT !.state =
                        CASE tk.state = "START_OF_DOCUMENT" -> "EXPECTED_END_OF_DOCUMENT"
                          [] tk.state = "OBJECT_AFTER_COLON" -> "OBJECT_AFTER_PROPERTY"
                          [] OTHER -> "ARRAY_AFTER_VALUE"])

\* a validate_and_modify_state_for_value that takes a value where a name is due
validate_and_modify_state_for_value_in_object(tk, error_prefix, tok) ==
    IF tk.state \in {"OBJECT_START", "OBJECT_AFTER_COMMA"}
    THEN TokOk(tok, [tk EXCEPT !.state = "OBJECT_AFTER_PROPERTY"])
    ELSE IF ~validate_state(tk, VALUE_STATES) THEN TokErr(error_prefix, tk)
    ELSE TokOk(tok, [tk EXCEPT !.state =
                        CASE tk.state = "START_OF_DOCUMENT" -> "EXPECTED_END_OF_DOCUMENT"
                          [] tk.state = "OBJECT_AFTER_COLON" -> "OBJECT_AFTER_PROPERTY"
                          [] OTHER -> "ARRAY_AFTER_VALUE"])

\* JsonTextTokenizer::validate_and_modify_state_for_value
validate_and_modify_state_for_value(tk, error_prefix, tok) ==
    IF ~validate_state(tk, VALUE_STATES) THEN TokErr(error_prefix, tk)
    ELSE CASE tk.state = "START_OF_DOCUMENT" ->
                TokOk(tok, [tk EXCEPT !.state = "EXPECTED_END_OF_DOCUMENT"])
           [] tk.state = "OBJECT_AFTER_COLON" ->
                TokOk(tok, [tk EXCEPT !.state = "OBJECT_AFTER_PROPERTY"])
           [] tk.state \in {"ARRAY_START", "ARRAY_AFTER_COMMA"} ->
                TokOk(tok, [tk EXCEPT !.state = "ARRAY_AFTER_VALUE"])
           [] OTHER ->
                TokErr("ValidateAndModifyStateForValue does not handle all value states (and should)", tk)

\* a pop_container that leaves the state of the container it closed
pop_container_keeping_state(tk) ==
    [tk EXCEPT !.container_stack = SubSeq(@, 1, Len(@) - 1)]

\* JsonTextTokenizer::pop_container
pop_container(tk) ==
    LET st == SubSeq(tk.container_stack, 1, Len(tk.container_stack) - 1) IN
    IF st = <<>> THEN [tk EXCEPT !.container_stack = st]
    ELSE [tk EXCEPT !.container_stack = st,
                    !.state = CASE st[Len(st)] = "Object" -> "OBJECT_AFTER_PROPERTY"
                                [] st[Len(st)] = "Array" -> "ARRAY_AFTER_VALUE"
                                [] st[Len(st)] = "Document" -> "EXPECTED_END_OF_DOCUMENT"]

WithReader(tk, rd) == [tk EXCEPT !.reader = rd]

\* what next_impl does with a literal, a string or a number it has scanned:
\* Err, or the token after validate_and_modify_state_for_value
Scanned(tk, s, error_prefix, type) ==
    IF ~s.ok THEN TokErr(s.err, WithReader(tk, s.rd))
    ELSE validate_and_modify_state_for_value(WithReader(tk, s.rd), error_prefix, TokText(type, s.val))

\* a double-quote arm that takes a string after a property for the next name
ScannedString_name_after_property(tk, s) ==
    IF ~s.ok THEN TokErr(s.err, WithReader(tk, s.rd))
    ELSE IF tk.state \in {"OBJECT_START", "OBJECT_AFTER_COMMA", "OBJECT_AFTER_PROPERTY"}
         THEN TokOk(TokText("Name", s.val),
                    [WithReader(tk, s.rd) EXCEPT !.state = "OBJECT_BEFORE_COLON"])
         ELSE validate_and_modify_state_for_value(
                  WithReader(tk, s.rd), "Invalid state to read a double quote: ",
                  TokText("StringValue", s.val))

\* the arm of next_impl for a double quote, the string being read
ScannedString(tk, s) ==
    IF ~s.ok THEN TokErr(s.err, WithReader(tk, s.rd))
    ELSE IF tk.state \in {"OBJECT_START", "OBJECT_AFTER_COMMA"}
         THEN TokOk(TokText("Name", s.val),
                    [WithReader(tk, s.rd) EXCEPT !.state = "OBJECT_BEFORE_COLON"])
         ELSE validate_and_modify_state_for_value(
                  WithReader(tk, s.rd), "Invalid state to read a double quote: ",
                  TokText("StringValue", s.val))

\* JsonTextTokenizer::next_impl, the loop over the characters between tokens
RECURSIVE next_impl_loop(_, _)
next_impl_step(t, next, txt) ==
    IF next = NoChar
    THEN IF ~validate_state(t, {"EXPECTED_END_OF_DOCUMENT"})
         THEN TokErr("Unexpected end of document in state: ", t)
         ELSE TokOk(Tok("EndDocument"), [t EXCEPT !.state = "READER_EXHAUSTED"])
    ELSE
    CASE next \in {Ord(" "), Ord("\t"), Ord("\r"), Ord("\n")} -> next_impl_loop(t, txt)
      [] next = Ord(":") ->
            IF ~validate_state(t, {"OBJECT_BEFORE_COLON"})
            THEN TokErr("Invalid state to read a colon: ", t)
            ELSE next_impl_loop([t EXCEPT !.state = "OBJECT_AFTER_COLON"], txt)
      [] next = Ord(",") ->
            IF ~validate_state(t, {"OBJECT_AFTER_PROPERTY", "ARRAY_AFTER_VALUE"})
            THEN TokErr("Invalid state to read a comma: ", t)
            ELSE next_impl_loop(
                    [t EXCEPT !.state = IF t.state = "OBJECT_AFTER_PROPERTY"
                                        THEN "OBJECT_AFTER_COMMA" ELSE "ARRAY_AFTER_COMMA"], txt)
      [] next = Ord("\"") -> ScannedString(t, read_string(t.reader, txt))
      [] next = Ord("{") ->
            IF ~validate_state(t, VALUE_STATES)
            THEN TokErr("Invalid state to read an open brace: ", t)
            ELSE TokOk(Tok("StartObject"),
                       [t EXCEPT !.state = "OBJECT_START",
                                 !.container_stack = Append(@, "Object")])
      [] next = Ord("}") ->
            IF ~validate_state(t, {"OBJECT_AFTER_PROPERTY", "OBJECT_START"})
            THEN TokErr("Invalid state to read a close brace: ", t)
            ELSE TokOk(Tok("EndObject"), pop_container(t))
      [] next = Ord("[") ->
            IF ~validate_state(t, VALUE_STATES)
            THEN TokErr("Invalid state to read an open square bracket: ", t)
            ELSE TokOk(Tok("StartArray"),
                       [t EXCEPT !.state = "ARRAY_START",
                                 !.container_stack = Append(@, "Array")])
      [] next = Ord("]") ->
            IF ~validate_state(t, {"ARRAY_AFTER_VALUE", "ARRAY_START"})
            THEN TokErr("Invalid state to read a close square bracket: ", t)
            ELSE TokOk(Tok("EndArray"), pop_container(t))
      [] next = Ord("n") ->
            Scanned(t, consume_literal(t.reader, Chars(<<"n", "u", "l", "l">>), txt),
                    "Invalid state to read a null literal: ", "Null")
      [] next = Ord("t") ->
            Scanned(t, consume_literal(t.reader, Chars(<<"t", "r", "u", "e">>), txt),
                    "Invalid state to read a true literal: ", "True")
      [] next = Ord("f") ->
            Scanned(t, consume_literal(t.reader, Chars(<<"f", "a", "l", "s", "e">>), txt),
                    "Invalid state to read a false literal: ", "False")
      [] next = Ord("-") \/ IsDigit(next) ->
            Scanned(t, read_number(t.reader, next, txt),
                    "Invalid state to read a number token: ", "Number")
      [] OTHER -> TokErr("Invalid first character of token: ", t)

next_impl_loop(tk, txt) ==
    Bind(read_char(tk.reader, txt), LAMBDA r : next_impl_step(WithReader(tk, r.rd), r.c, txt))

\* a next_impl that reads on after the end of the document
next_impl_reading_on(tk, txt) == next_impl_loop(tk, txt)

\* a next_impl that returns EndDocument again after the end of the document
next_impl_ending_again(tk, txt) ==
    IF tk.state = "READER_EXHAUSTED"
    THEN TokOk(Tok("EndDocument"), tk)
    ELSE next_impl_loop(tk, txt)

\* JsonTextTokenizer::next_impl
next_impl(tk, txt) ==
    IF tk.state = "READER_EXHAUSTED"
    THEN TokErr("Next() called after end of document", tk)
    ELSE next_impl_loop(tk, txt)

---------------------------------------------------------------------------
(* JsonTokenizer *)

\* JsonTokenizer::new
tokenizer_new == [buffered_token |-> <<>>, object_depth |-> 0, proxy |-> text_tokenizer_new]

\* the outcome of a JsonTokenizer call: Ok(tok) or Err(err), and the tokenizer after it
StreamOk(tok, tz) == [ok |-> TRUE, err |-> "", tok |-> tok, tz |-> tz]
StreamErr(err, tz) == [ok |-> FALSE, err |-> err, tok |-> Tok("None"), tz |-> tz]

\* a depth change that counts arrays as it counts objects
DepthAfterNext_counting_arrays(depth, tok) ==
    IF tok.type \in {"StartObject", "StartArray"} THEN depth + 1
    ELSE IF tok.type \in {"EndObject", "EndArray"} THEN depth - 1
    ELSE depth

\* the depth change of JsonTokenizer::next for a token
DepthAfterNext(depth, tok) ==
    IF tok.type = "StartObject" THEN depth + 1
    ELSE IF tok.type = "EndObject" THEN depth - 1
    ELSE depth

\* a next that returns the buffered token and keeps it buffered
next_keeping_buffer(tz, txt) ==
    IF tz.buffered_token # <<>>
    THEN LET tok == tz.buffered_token[Len(tz.buffered_token)] IN
         StreamOk(tok, [tz EXCEPT !.object_depth = DepthAfterNext(@, tok)])
    ELSE Bind(next_impl(tz.proxy, txt), LAMBDA r :
         IF ~r.ok THEN StreamErr(r.err, [tz EXCEPT !.proxy = r.tk])
         ELSE StreamOk(r.tok, [tz EXCEPT !.proxy = r.tk,
                                         !.object_depth = DepthAfterNext(@, r.tok)]))

\* JsonTokenizer::next
next(tz, txt) ==
    IF tz.buffered_token # <<>>
    THEN LET tok == tz.buffered_token[Len(tz.buffered_token)] IN
         StreamOk(tok, [tz EXCEPT !.buffered_token = SubSeq(@, 1, Len(@) - 1),
                                  !.object_depth = DepthAfterNext(@, tok)])
    ELSE Bind(next_impl(tz.proxy, txt), LAMBDA r :
         IF ~r.ok THEN StreamErr(r.err, [tz EXCEPT !.proxy = r.tk])
         ELSE StreamOk(r.tok, [tz EXCEPT !.proxy = r.tk,
                                         !.object_depth = DepthAfterNext(@, r.tok)]))

\* a push_back that buffers the token and leaves object_depth alone
push_back_keeping_depth(tz, token) ==
    IF tz.buffered_token # <<>> THEN StreamErr("Can't push back twice", tz)
    ELSE StreamOk(token, [tz EXCEPT !.buffered_token = Append(@, token)])

\* a push_back that replaces a token already buffered
push_back_replacing(tz, token) ==
    StreamOk(token,
        [tz EXCEPT !.object_depth = IF token.type = "StartObject" THEN @ - 1
                                    ELSE IF token.type = "EndObject" THEN @ + 1
                                    ELSE @,
                   !.buffered_token = <<token>>])

\* a push_back that takes a StartArray for an open object too
push_back_counting_arrays(tz, token) ==
    IF tz.buffered_token # <<>> THEN StreamErr("Can't push back twice", tz)
    ELSE StreamOk(token,
            [tz EXCEPT !.object_depth = IF token.type \in {"StartObject", "StartArray"} THEN @ - 1
                                        ELSE IF token.type = "EndObject" THEN @ + 1
                                        ELSE @,
                       !.buffered_token = Append(@, token)])

\* JsonTokenizer::push_back
push_back(tz, token) ==
    IF tz.buffered_token # <<>> THEN StreamErr("Can't push back twice", tz)
    ELSE StreamOk(token,
            [tz EXCEPT !.object_depth = IF token.type = "StartObject" THEN @ - 1
                                        ELSE IF token.type = "EndObject" THEN @ + 1
                                        ELSE @,
                       !.buffered_token = Append(@, token)])


\* the nesting change skip_value counts for a token
SkipDepthAfter(depth, tok) ==
    IF tok.type \in {"EndArray", "EndObject"} THEN depth - 1
    ELSE IF tok.type \in {"StartArray", "StartObject"} THEN depth + 1
    ELSE depth

\* JsonTokenizer::skip_value, its loop
RECURSIVE skip_value_loop(_, _, _)
skip_value_loop(tz, depth, txt) ==
    Bind(next(tz, txt), LAMBDA r :
    IF ~r.ok THEN StreamErr(r.err, r.tz)
    ELSE IF SkipDepthAfter(depth, r.tok) = 0 THEN StreamOk(Tok("None"), r.tz)
    ELSE skip_value_loop(r.tz, SkipDepthAfter(depth, r.tok), txt))

\* a skip_value that takes one token and stops
skip_value_one_token(tz, txt) ==
    Bind(next(tz, txt), LAMBDA r :
    IF ~r.ok THEN StreamErr(r.err, r.tz) ELSE StreamOk(Tok("None"), r.tz))

\* JsonTokenizer::skip_value
skip_value(tz, txt) == skip_value_loop(tz, 0, txt)

---------------------------------------------------------------------------
(* Numbers.  TLC's integers are 32 bits wide, so an i64 is its sign and    *)
(* the decimal digits of its magnitude, and an f64 is the decimal it was   *)
(* read from: sign, significant digits and the power of ten of the last    *)
(* one.  For literals of at most 15 significant digits whose value is      *)
(* zero, infinite or in the normal range this is exact: the nearest f64    *)
(* of such a decimal prints back (shortest representation) as that         *)
(* decimal.                                                                *)

\* the value of a decimal digit character
DigitVal(c) == c - Ord("0")

\* digits without their leading zeros; <<0>> for zero
RECURSIVE StripLeadingZeros(_)
StripLeadingZeros(ds) ==
    IF Len(ds) > 1 /\ Head(ds) = 0 THEN StripLeadingZeros(Tail(ds)) ELSE ds

\* a < b for digit sequences of one length, most significant digit first
RECURSIVE DigitsLess(_, _)
DigitsLess(a, b) ==
    IF a = <<>> \/ b = <<>> THEN FALSE
    ELSE IF Head(a) # Head(b) THEN Head(a) < Head(b)
    ELSE DigitsLess(Tail(a), Tail(b))

\* i64::MAX = 9223372036854775807, and the magnitude of i64::MIN
I64MaxDigits == <<9, 2, 2, 3, 3, 7, 2, 0, 3, 6, 8, 5, 4, 7, 7, 5, 8, 0, 7>>
I64MinDigits == <<9, 2, 2, 3, 3, 7, 2, 0, 3, 6, 8, 5, 4, 7, 7, 5, 8, 0, 8>>

\* the magnitude fits an i64 of that sign (checked_mul, checked_add, checked_sub)
FitsI64(neg, mag) ==
    \/ Len(mag) < Len(I64MaxDigits)
    \/ /\ Len(mag) = Len(I64MaxDigits)
       /\ ~DigitsLess(IF neg THEN I64MinDigits ELSE I64MaxDigits, mag)

I64Ok(neg, mag) == [ok |-> TRUE, neg |-> neg /\ mag # <<0>>, mag |-> mag]
I64Err == [ok |-> FALSE, neg |-> FALSE, mag |-> <<>>]

\* the digit loop of i64::from_str: result = result * 10 +/- digit, checked
RECURSIVE parse_i64_digits(_, _, _)
parse_i64_digits(s, neg, acc) ==
    IF s = <<>> THEN I64Ok(neg, acc)
    ELSE IF ~IsDigit(Head(s)) THEN I64Err
    ELSE Bind(StripLeadingZeros(Append(acc, DigitVal(Head(s)))), LAMBDA acc2 :
         IF ~FitsI64(neg, acc2) THEN I64Err ELSE parse_i64_digits(Tail(s), neg, acc2))

\* str::parse::<i64>: an optional sign, then one or more digits, in range
parse_i64(s) ==
    IF s = <<>> THEN I64Err
    ELSE IF Head(s) \in {Ord("-"), Ord("+")}
         THEN IF Tail(s) = <<>> THEN I64Err
              ELSE parse_i64_digits(Tail(s), Head(s) = Ord("-"), <<0>>)
         ELSE parse_i64_digits(s, FALSE, <<0>>)

\* the index of the first character of s from i on that is no digit
RECURSIVE DigitsEnd(_, _)
DigitsEnd(s, i) == IF i <= Len(s) /\ IsDigit(s[i]) THEN DigitsEnd(s, i + 1) ELSE i

\* the value of a run of at most MaxExpDigits digits
RECURSIVE DecimalValue(_)
DecimalValue(ds) ==
    IF ds = <<>> THEN 0 ELSE DecimalValue(SubSeq(ds, 1, Len(ds) - 1)) * 10 + DigitVal(ds[Len(ds)])

\* digits without their trailing zeros
RECURSIVE StripTrailingZeros(_)
StripTrailingZeros(ds) ==
    IF ds # <<>> /\ ds[Len(ds)] = 0 THEN StripTrailingZeros(SubSeq(ds, 1, Len(ds) - 1)) ELSE ds

RECURSIVE StripAllLeadingZeros(_)
StripAllLeadingZeros(ds) ==
    IF ds # <<>> /\ Head(ds) = 0 THEN StripAllLeadingZeros(Tail(ds)) ELSE ds

\* a < b for the decimal fractions 0.a and 0.b
RECURSIVE FractionLess(_, _)
FractionLess(a, b) ==
    IF b = <<>> THEN FALSE
    ELSE IF a = <<>> THEN \E k \in 1..Len(b) : b[k] # 0
    ELSE IF Head(a) # Head(b) THEN Head(a) < Head(b)
    ELSE FractionLess(Tail(a), Tail(b))

\* 0.17976931348623158 * 10^309: the decimals from here on round to infinity
\* (f64::MAX is 1.7976931348623157e308)
F64OverflowDigits == <<1, 7, 9, 7, 6, 9, 3, 1, 3, 4, 8, 6, 2, 3, 1, 5, 8>>
F64OverflowTop == 309
\* the decimals below 10^F64UnderflowTop round to zero (the least f64 is 4.9e-324)
F64UnderflowTop == -324

\* the f64 nearest to  (sign) 0.digs * 10^top
F64Of(neg, digs, top) ==
    IF digs = <<>> \/ top <= F64UnderflowTop
    THEN [class |-> "zero", neg |-> neg, digs |-> <<>>, exp |-> 0]
    ELSE IF top > F64OverflowTop \/ (top = F64OverflowTop /\ ~FractionLess(digs, F64OverflowDigits))
    THEN [class |-> "inf", neg |-> neg, digs |-> <<>>, exp |-> 0]
    ELSE [class |-> "finite", neg |-> neg, digs |-> digs, exp |-> top - Len(digs)]

F64Err == [class |-> "err", neg |-> FALSE, digs |-> <<>>, exp |-> 0]

\* str::parse::<f64> on a decimal literal: [sign] digits [. digits] [e|E [sign] digits],
\* with a digit before or after the point
parse_f64(s) ==
    LET signed == s # <<>> /\ Head(s) \in {Ord("-"), Ord("+")}
        neg == s # <<>> /\ Head(s) = Ord("-")
        i0 == IF signed THEN 2 ELSE 1
        i1 == DigitsEnd(s, i0)
        point == i1 <= Len(s) /\ s[i1] = Ord(".")
        i2 == IF point THEN DigitsEnd(s, i1 + 1) ELSE i1
        int == SubSeq(s, i0, i1 - 1)
        frac == IF point THEN SubSeq(s, i1 + 1, i2 - 1) ELSE <<>>
        hasexp == i2 <= Len(s) /\ s[i2] \in {Ord("e"), Ord("E")}
        expsigned == hasexp /\ i2 + 1 <= Len(s) /\ s[i2 + 1] \in {Ord("-"), Ord("+")}
        expneg == expsigned /\ s[i2 + 1] = Ord("-")
        i3 == IF expsigned THEN i2 + 2 ELSE i2 + 1
        i4 == IF hasexp THEN DigitsEnd(s, i3) ELSE i2
        expdigits == IF hasexp THEN SubSeq(s, i3, i4 - 1) ELSE <<>>
        e == IF expneg THEN 0 - DecimalValue(expdigits) ELSE DecimalValue(expdigits)
        all == [k \in 1..(Len(int) + Len(frac)) |-> DigitVal((int \o frac)[k])]
        lead == StripAllLeadingZeros(all)
        digs == StripTrailingZeros(lead)
    IN
    IF int = <<>> /\ frac = <<>> THEN F64Err
    ELSE IF hasexp /\ expdigits = <<>> THEN F64Err
    ELSE IF i4 # Len(s) + 1 THEN F64Err
    ELSE F64Of(neg, digs, Len(int) - (Len(all) - Len(lead)) + e)

---------------------------------------------------------------------------
(* Value and Map *)

NullValue == [kind |-> "Null"]
BoolValue(b) == [kind |-> "Bool", b |-> b]
I64Value(n) == [kind |-> "I64", neg |-> n.neg, mag |-> n.mag]
F64Value(x) == [kind |-> "F64", class |-> x.class, neg |-> x.neg, digs |-> x.digs, exp |-> x.exp]
StringValue(str) == [kind |-> "String", s |-> str]
VecValue(vec) == [kind |-> "Vec", items |-> vec]
ObjectValue(map) == [kind |-> "Object", map |-> map]

\* Map::new: a Map is the function from its keys to their values
EmptyMap == <<>>

\* an insert that would keep the entry a name already has
map_insert_keeping_first(map, name, val) ==
    IF name \in DOMAIN map THEN map ELSE (name :> val) @@ map

\* an insert that would merge the members of a new Object into an old one
map_insert_merging_objects(map, name, val) ==
    IF name \in DOMAIN map
    THEN IF map[name].kind = "Object" /\ val.kind = "Object"
         THEN (name :> ObjectValue(val.map @@ map[name].map)) @@ map
         ELSE (name :> val) @@ map
    ELSE (name :> val) @@ map

\* Map::insert (HashMap::insert): the entry for the name is replaced
map_insert(map, name, val) == (name :> val) @@ map

---------------------------------------------------------------------------
(* JsonReader.  A call of parse is a stack of activations that advances    *)
(* from one call of tokenizer.next() to the following one.  An activation  *)
(* of parse_object refers to the Map it fills: 0 is the Map handed to      *)
(* parse, k > 0 is the nested_obj of the parse_value_type activation at    *)
(* stack position k.                                                       *)

\* JsonReaderSettings::default
JsonReaderSettings_default == [recursion_limit |-> 100]

NoToken == Tok("None")
Error(msg) == [msg |-> msg, limit |-> -1, tok |-> NoToken]
DepthError(limit) == [msg |-> "The set recursion depth is exceeded: ", limit |-> limit, tok |-> NoToken]
TokenError(msg, tok) == [msg |-> msg, limit |-> -1, tok |-> tok]

Idle == [state |-> "idle", err |-> Error("")]
Pending == [state |-> "pending", err |-> Error("")]
Ok == [state |-> "Ok", err |-> Error("")]
Err(e) == [state |-> "Err", err |-> e]

NoCall == [ok |-> TRUE, err |-> "", tok |-> NoToken]
CallOf(r) == [ok |-> r.ok, err |-> r.err, tok |-> r.tok]

Frame(fn, pc, objref, name) ==
    [fn |-> fn, pc |-> pc, obj |-> objref, name |-> name, nested_obj |-> EmptyMap, vec |-> <<>>]

Top(st) == st.stack[Len(st.stack)]
Pop(st) == [st EXCEPT !.stack = SubSeq(@, 1, Len(@) - 1)]

\* the ? operator all the way up: parse returns the error
Fail(st, e) == [st EXCEPT !.stack = <<>>, !.result = Err(e)]

\* the tokenizer after a call of next() or push_back(), and what the call returned
Called(st, r) == [st EXCEPT !.tokenizer = r.tz, !.last = CallOf(r)]

ValOk(val) == [ok |-> TRUE, err |-> Error(""), val |-> val]
ValErr(e) == [ok |-> FALSE, err |-> e, val |-> NullValue]

\* safe_parse_f64 without its is_nan / is_infinite test
safe_parse_f64_unchecked(s) ==
    Bind(parse_f64(s), LAMBDA num :
    IF num.class = "err" THEN ValErr(Error("Parse error: "))
    ELSE ValOk(num))

\* JsonReader::safe_parse_f64
safe_parse_f64(s) ==
    Bind(parse_f64(s), LAMBDA num :
    IF num.class = "err" THEN ValErr(Error("Parse error: "))
    ELSE IF num.class \in {"nan", "inf"} THEN ValErr(Error("Reject special value"))
    ELSE ValOk(num))

\* parse_single_value with the two number conversions tried in the other order
parse_single_value_float_first(token) ==
    CASE token.type = "Null" -> ValOk(NullValue)
      [] token.type = "False" -> ValOk(BoolValue(FALSE))
      [] token.type = "True" -> ValOk(BoolValue(TRUE))
      [] token.type = "StringValue" -> ValOk(StringValue(token.text))
      [] token.type = "Number" ->
            IF parse_f64(token.text).class # "err"
            THEN Bind(safe_parse_f64(token.text), LAMBDA value :
                 IF ~value.ok THEN ValErr(value.err) ELSE ValOk(F64Value(value.val)))
            ELSE IF parse_i64(token.text).ok
            THEN ValOk(I64Value(parse_i64(token.text)))
            ELSE ValErr(TokenError("Invalid number: ", token))
      [] OTHER -> ValErr(TokenError("An error Token occurred while parsing single value: ", token))

\* JsonReader::parse_single_value
parse_single_value(token) ==
    CASE token.type = "Null" -> ValOk(NullValue)
      [] token.type = "False" -> ValOk(BoolValue(FALSE))
      [] token.type = "True" -> ValOk(BoolValue(TRUE))
      [] token.type = "StringValue" -> ValOk(StringValue(token.text))
      [] token.type = "Number" ->
            IF parse_i64(token.text).ok
            THEN ValOk(I64Value(parse_i64(token.text)))
            ELSE IF parse_f64(token.text).class # "err"
            THEN Bind(safe_parse_f64(token.text), LAMBDA value :
                 IF ~value.ok THEN ValErr(value.err) ELSE ValOk(F64Value(value.val)))
            ELSE ValErr(TokenError("Invalid number: ", token))
      [] OTHER -> ValErr(TokenError("An error Token occurred while parsing single value: ", token))

\* obj.insert(name, val) in parse_object, on the Map the activation refers to
obj_insert(st, objref, name, val) ==
    IF objref = 0 THEN [st EXCEPT !.obj = map_insert(@, name, val)]
    ELSE [st EXCEPT !.stack[objref].nested_obj = map_insert(@, name, val)]

\* parse_value_type returned Ok(val) to the activation now on top:
\* vec.push(val) in parse_array, obj.insert(name, val) in parse_object
return_value(st, val) ==
    IF Top(st).fn = "parse_array"
    THEN [st EXCEPT !.stack[Len(st.stack)].vec = Append(@, val),
                    !.stack[Len(st.stack)].pc = "loop"]
    ELSE obj_insert(st, Top(st).obj, Top(st).name, val)

\* parse_object returned Ok(()): to parse, which goes on to the last token, or
\* to parse_value_type, which returns Ok(Value::Object(nested_obj))
parse_object_return(st) ==
    Bind(Pop(st), LAMBDA s :
    IF Top(s).fn = "parse" THEN [s EXCEPT !.stack[Len(s.stack)].pc = "end"]
    ELSE return_value(Pop(s), ObjectValue(Top(s).nested_obj)))

\* a recursion check that would already reject depth recursion_limit
depth_exceeded_from_limit(tz, self) == tz.object_depth >= self.settings.recursion_limit

\* the recursion check of parse_object
depth_exceeded(tz, self) == tz.object_depth > self.settings.recursion_limit

\* JsonReader::parse_object up to its loop
parse_object_enter(st, txt) ==
    Bind(next(st.tokenizer, txt), LAMBDA r :
    Bind(Called(st, r), LAMBDA s :
    IF ~r.ok THEN Fail(s, Error(r.err))
    ELSE IF r.tok.type # "StartObject" THEN Fail(s, Error("Expected an object"))
    ELSE IF depth_exceeded(r.tz, s) THEN Fail(s, DepthError(s.settings.recursion_limit))
    ELSE [s EXCEPT !.stack[Len(s.stack)].pc = "loop"]))

\* JsonReader::parse_object, one turn of its loop
parse_object_loop(st, txt) ==
    Bind(next(st.tokenizer, txt), LAMBDA r :
    Bind(Called(st, r), LAMBDA s :
    IF ~r.ok THEN Fail(s, Error(r.err))
    ELSE IF r.tok.type = "EndObject" THEN parse_object_return(s)
    ELSE IF r.tok.type = "Name"
    THEN [s EXCEPT !.stack = Append([@ EXCEPT ![Len(@)].name = r.tok.text],
                                    Frame("parse_value_type", "next", Top(s).obj, r.tok.text))]
    ELSE Fail(s, TokenError("Unexpected token type ", r.tok))))

\* handing the enclosing object's Map to parse_object for a nested object
nested_obj_of_caller(st) == Top(st).obj

\* the Map parse_value_type hands to parse_object for a nested object: its nested_obj
nested_obj_ref(st) == Len(st.stack)

\* JsonReader::parse_value_type
parse_value_type(st, txt) ==
    Bind(next(st.tokenizer, txt), LAMBDA r :
    Bind(Called(st, r), LAMBDA s :
    IF ~r.ok THEN Fail(s, Error(r.err))
    ELSE IF r.tok.type = "StartArray"
    THEN [s EXCEPT !.stack = Append([@ EXCEPT ![Len(@)].pc = "array"],
                                    Frame("parse_array", "loop", Top(s).obj, Top(s).name))]
    ELSE IF r.tok.type = "StartObject"
    THEN Bind(push_back(r.tz, r.tok), LAMBDA pb :
         IF ~pb.ok THEN Fail(s, Error(pb.err))
         ELSE [s EXCEPT !.tokenizer = pb.tz,
                        !.stack = Append([@ EXCEPT ![Len(@)].pc = "object",
                                                   ![Len(@)].nested_obj = EmptyMap],
                                         Frame("parse_object", "enter", nested_obj_ref(s), <<>>))])
    ELSE Bind(parse_single_value(r.tok), LAMBDA val :
         IF ~val.ok THEN Fail(s, val.err)
         ELSE return_value(Pop(s), val.val))))

\* JsonReader::parse_array, one turn of its loop
parse_array(st, txt) ==
    Bind(next(st.tokenizer, txt), LAMBDA r :
    Bind(Called(st, r), LAMBDA s :
    IF ~r.ok THEN Fail(s, Error(r.err))
    ELSE IF r.tok.type = "EndArray"
    THEN return_value(Pop(Pop(s)), VecValue(Top(s).vec))
    ELSE Bind(push_back(r.tz, r.tok), LAMBDA pb :
         IF ~pb.ok THEN Fail(s, Error(pb.err))
         ELSE [s EXCEPT !.tokenizer = pb.tz,
                        !.stack = Append([@ EXCEPT ![Len(@)].pc = "value"],
                                         Frame("parse_value_type", "next", Top(s).obj, Top(s).name))])))

\* a parse that would return Ok(()) without looking at what follows the object
parse_end_unchecked(st, txt) == [st EXCEPT !.stack = <<>>, !.result = Ok]

\* JsonReader::parse after parse_object returned
parse_end(st, txt) ==
    Bind(next(st.tokenizer, txt), LAMBDA last_token :
    Bind(Called(st, last_token), LAMBDA s :
    IF ~last_token.ok THEN Fail(s, Error(last_token.err))
    ELSE IF last_token.tok.type # "EndDocument"
    THEN Fail(s, Error("Expected end of JSON after object"))
    ELSE [s EXCEPT !.stack = <<>>, !.result = Ok]))

\* JsonReader::parse up to its call of parse_object
parse_begin(obj_, settings_) ==
    [tokenizer |-> tokenizer_new, last |-> NoCall, obj |-> obj_, settings |-> settings_,
     result |-> Pending,
     stack |-> <<Frame("parse", "object", 0, <<>>), Frame("parse_object", "enter", 0, <<>>)>>]

\* the activation on top of the stack goes on to its next call of tokenizer.next()
reader_step(st, txt) ==
    CASE Top(st).fn = "parse" -> parse_end(st, txt)
      [] Top(st).fn = "parse_object" /\ Top(st).pc = "enter" -> parse_object_enter(st, txt)
      [] Top(st).fn = "parse_object" /\ Top(st).pc # "enter" -> parse_object_loop(st, txt)
      [] Top(st).fn = "parse_value_type" -> parse_value_type(st, txt)
      [] Top(st).fn = "parse_array" -> parse_array(st, txt)

RECURSIVE reader_run(_, _)
reader_run(st, json) ==
    IF st.result.state # "pending" THEN st ELSE reader_run(reader_step(st, json), json)

\* JsonReader::parse on a text that is all there
parse(obj_, settings_, json) == reader_run(parse_begin(obj_, settings_), json)

---------------------------------------------------------------------------
(* JsonWriter with JsonWriterSettings::default (no indentation).  A Map is *)
(* a HashMap: the order in which its entries are written is not fixed, so  *)
(* formatting gives the set of texts the orders can produce.               *)

Zeros(n) == [k \in 1..n |-> Ord("0")]
DigitChars(ds) == [k \in 1..Len(ds) |-> Ord("0") + ds[k]]
Sign(neg) == IF neg THEN Chars(<<"-">>) ELSE <<>>

\* i64::to_string
i64_to_string(val) == Sign(val.neg) \o DigitChars(val.mag)

\* f64::to_string: the shortest decimal that reads back as the value, never
\* with an exponent, and without ".0" for a whole number
f64_to_string(val) ==
    CASE val.class = "nan" -> Chars(<<"N", "a", "N">>)
      [] val.class = "inf" -> Sign(val.neg) \o Chars(<<"i", "n", "f">>)
      [] val.class = "zero" -> Sign(val.neg) \o Chars(<<"0">>)
      [] OTHER ->
            IF val.exp >= 0 THEN Sign(val.neg) \o DigitChars(val.digs) \o Zeros(val.exp)
            ELSE IF Len(val.digs) + val.exp > 0
            THEN Sign(val.neg) \o DigitChars(SubSeq(val.digs, 1, Len(val.digs) + val.exp))
                     \o Chars(<<".">>)
                     \o DigitChars(SubSeq(val.digs, Len(val.digs) + val.exp + 1, Len(val.digs)))
            ELSE Sign(val.neg) \o Chars(<<"0", ".">>) \o Zeros(0 - (Len(val.digs) + val.exp))
                     \o DigitChars(val.digs)

\* JsonWriter::write_f64, write_i64, write_null, write_bool
write_f64(val) == f64_to_string(val)
write_i64(val) == i64_to_string(val)
write_null == Chars(<<"n", "u", "l", "l">>)
write_bool(val) == IF val THEN Chars(<<"t", "r", "u", "e">>) ELSE Chars(<<"f", "a", "l", "s", "e">>)

\* char::is_control: the general category Cc
is_control(c) == c <= 31 \/ (c >= 127 /\ c <= 159)

HexChar(n) == IF n < 10 THEN Ord("0") + n ELSE Ord("a") + (n - 10)

\* format!("\\u{:04x}", c as u32) for a control character
UnicodeEscape(c) ==
    Chars(<<"\\", "u">>) \o
    <<HexChar(c \div 4096), HexChar((c \div 256) % 16), HexChar((c \div 16) % 16), HexChar(c % 16)>>

\* a write_string that writes a backslash as it is
write_char_plain_backslash(c) ==
    CASE c = Ord("\"") -> Chars(<<"\\", "\"">>)
      [] c = 8 -> Chars(<<"\\", "b">>)
      [] c = 12 -> Chars(<<"\\", "f">>)
      [] c = Ord("\n") -> Chars(<<"\\", "n">>)
      [] c = Ord("\r") -> Chars(<<"\\", "r">>)
      [] c = Ord("\t") -> Chars(<<"\\", "t">>)
      [] c = Ord("/") -> Chars(<<"\\", "/">>)
      [] OTHER -> IF is_control(c) THEN UnicodeEscape(c) ELSE <<c>>

\* JsonWriter::write_string, one character
write_char(c) ==
    CASE c = Ord("\"") -> Chars(<<"\\", "\"">>)
      [] c = Ord("\\") -> Chars(<<"\\", "\\">>)
      [] c = 8 -> Chars(<<"\\", "b">>)
      [] c = 12 -> Chars(<<"\\", "f">>)
      [] c = Ord("\n") -> Chars(<<"\\", "n">>)
      [] c = Ord("\r") -> Chars(<<"\\", "r">>)
      [] c = Ord("\t") -> Chars(<<"\\", "t">>)
      [] c = Ord("/") -> Chars(<<"\\", "/">>)
      [] OTHER -> IF is_control(c) THEN UnicodeEscape(c) ELSE <<c>>

RECURSIVE write_chars(_)
write_chars(str) == IF str = <<>> THEN <<>> ELSE write_char(Head(str)) \o write_chars(Tail(str))

\* JsonWriter::write_string
write_string(str) == Chars(<<"\"">>) \o write_chars(str) \o Chars(<<"\"">>)

\* JsonWriter::maybe_write_value_separator
maybe_write_value_separator(first) == IF first THEN <<>> ELSE Chars(<<",">>)

RECURSIVE write_value(_), write_vec_items(_, _), write_struct_entries(_, _, _)

\* JsonWriter::write_struct_entries: the entries not yet written, in any order
write_struct_entries(map, keys, first) ==
    IF keys = {} THEN {<<>>}
    ELSE UNION { { maybe_write_value_separator(first) \o write_string(key) \o Chars(<<":">>)
                       \o val \o rest :
                     val \in write_value(map[key]),
                     rest \in write_struct_entries(map, keys \ {key}, FALSE) } :
                 key \in keys }

\* JsonWriter::write_vec: the loop over the elements from the i-th on
write_vec_items(vec, i) ==
    IF i > Len(vec) THEN {<<>>}
    ELSE { maybe_write_value_separator(i = 1) \o val \o rest :
             val \in write_value(vec[i]), rest \in write_vec_items(vec, i + 1) }

\* JsonWriter::write_struct
write_struct(map) ==
    { Chars(<<"{">>) \o entries \o Chars(<<"}">>) :
        entries \in write_struct_entries(map, DOMAIN map, TRUE) }

\* JsonWriter::write_vec
write_vec(vec) ==
    { Chars(<<"[">>) \o items \o Chars(<<"]">>) : items \in write_vec_items(vec, 1) }

\* JsonWriter::write_value
write_value(value) ==
    CASE value.kind = "Null" -> {write_null}
      [] value.kind = "Bool" -> {write_bool(value.b)}
      [] value.kind = "F64" -> {write_f64(value)}
      [] value.kind = "I64" -> {write_i64(value)}
      [] value.kind = "String" -> {write_string(value.s)}
      [] value.kind = "Vec" -> write_vec(value.items)
      [] value.kind = "Object" -> write_struct(value.map)

\* JsonWriter::format (Map::to_json): the texts it can give for the Map
format(map) == write_struct(map)

\* Value's and Map's derived PartialEq: f64 compares as IEEE 754 does
RECURSIVE value_eq(_, _)
value_eq(a, b) ==
    IF a.kind # b.kind THEN FALSE
    ELSE CASE a.kind = "F64" ->
                 /\ a.class # "nan"
                 /\ (a.class = "zero" /\ b.class = "zero") \/ a = b
           [] a.kind = "Vec" ->
                 /\ Len(a.items) = Len(b.items)
                 /\ \A k \in 1..Len(a.items) : value_eq(a.items[k], b.items[k])
           [] a.kind = "Object" ->
                 /\ DOMAIN a.map = DOMAIN b.map
                 /\ \A key \in DOMAIN a.map : value_eq(a.map[key], b.map[key])
           [] OTHER -> a = b

map_eq(a, b) == value_eq(ObjectValue(a), ObjectValue(b))

---------------------------------------------------------------------------
(* The input text *)

\* the most pieces a text is fed in
MaxPieces == 5

\* the scanner asked the iterator for a character when none was left
Starved(tz, txt) == tz.proxy.reader.pos = Len(txt) + 2

\* the next call of JsonTokenizer::next would read past what was fed so far
NeedsInput == ~eof /\ Starved(next(tokenizer, text).tz, text)

\* the text continues with one more piece
Feed ==
    /\ ~eof
    /\ npieces < MaxPieces
    /\ \E p \in pieces : text' = text \o p
    /\ npieces' = npieces + 1
    /\ UNCHANGED <<eof, pieces, tokenizer, last, stack, obj, obj0, settings, result, calls, other>>

\* the text ends here
Close ==
    /\ ~eof
    /\ eof' = TRUE
    /\ UNCHANGED <<text, npieces, pieces, tokenizer, last, stack, obj, obj0, settings, result, calls,
                   other>>

InitInput(families) ==
    /\ text = <<>>
    /\ eof = FALSE
    /\ npieces = 0
    /\ pieces \in families
    /\ tokenizer = tokenizer_new
    /\ last = NoCall

InitIdleReader ==
    /\ stack = <<>>
    /\ obj = EmptyMap
    /\ obj0 = EmptyMap
    /\ settings = JsonReaderSettings_default
    /\ result = Idle
    /\ calls = <<>>
    /\ other = EmptyMap

---------------------------------------------------------------------------
(* SpecScan: a fresh JsonTokenizer on which next() is called until it      *)
(* returns EndDocument or an error (assert_tokens, assert_error_after).    *)
(* After an error nothing more is read; the text may still go on.          *)

ScanStructure ==
    { Chars(<<"{">>), Chars(<<"}">>), Chars(<<"[">>), Chars(<<"]">>), Chars(<<":">>),
      Chars(<<",">>), Chars(<<"\"", "a", "\"">>), Chars(<<"1">>) }

ScanLiterals ==
    { Chars(<<" ">>), Chars(<<"\n">>), Chars(<<"n", "u", "l", "l">>), Chars(<<"t", "r", "u", "e">>),
      Chars(<<"f", "a", "l", "s", "e">>), Chars(<<"n">>), Chars(<<"u">>), Chars(<<"l">>) }

ScanNumbers ==
    { Chars(<<"-">>), Chars(<<"0">>), Chars(<<"1">>), Chars(<<".">>), Chars(<<"e">>),
      Chars(<<"E">>), Chars(<<"+">>), Chars(<<" ">>) }

ScanStrings ==
    { Chars(<<"\"">>), Chars(<<"\\">>), Chars(<<"\\", "u", "0", "0">>), Chars(<<"e", "1">>),
      Chars(<<"n">>), Chars(<<"x">>), Chars(<<"\t">>), Chars(<<"a">>) }

ScanEscapes ==
    { Chars(<<"\"">>), Chars(<<"\\", "u">>), Chars(<<"0", "9">>), Chars(<<"a", "f">>),
      Chars(<<"A", "F">>), Chars(<<"0", "1">>), Chars(<<"0", "0">>) }

ScanFamilies == {ScanStructure, ScanLiterals, ScanNumbers, ScanStrings, ScanEscapes}

ScanRunning == last.ok /\ last.tok.type # "EndDocument"

ScanFeed == (~last.ok \/ (ScanRunning /\ NeedsInput)) /\ Feed

ScanClose == ScanRunning /\ NeedsInput /\ Close

ScanNext ==
    /\ ScanRunning
    /\ BindStep(next(tokenizer, text), LAMBDA r :
            /\ eof \/ ~Starved(r.tz, text)
            /\ tokenizer' = r.tz
            /\ last' = [ok |-> r.ok, err |-> r.err, tok |-> r.tok])
    /\ UNCHANGED <<text, eof, npieces, pieces, stack, obj, obj0, settings, result, calls, other>>

InitScan == InitInput(ScanFamilies) /\ InitIdleReader

NextScan == ScanFeed \/ ScanClose \/ ScanNext

SpecScan == InitScan /\ [][NextScan]_vars

---------------------------------------------------------------------------
(* RFC 7159: JSON-text = ws value ws, recognised by the grammar's          *)
(* productions.  Each recogniser takes the index at which its production   *)
(* must start and gives the index after it, or 0 when it does not match.   *)

At(t, i) == IF i >= 1 /\ i <= Len(t) THEN t[i] ELSE NoChar

JsonWs == {Ord(" "), Ord("\t"), Ord("\n"), Ord("\r")}

RECURSIVE JWs(_, _)
JWs(t, i) == IF At(t, i) \in JsonWs THEN JWs(t, i + 1) ELSE i

JDigit(c) == c >= Ord("0") /\ c <= Ord("9")

RECURSIVE JDigits(_, _)
JDigits(t, i) == IF JDigit(At(t, i)) THEN JDigits(t, i + 1) ELSE i

\* 1*DIGIT
JDigits1(t, i) == IF JDigit(At(t, i)) THEN JDigits(t, i + 1) ELSE 0

\* int = zero / ( digit1-9 *DIGIT )
JInt(t, i) ==
    IF At(t, i) = Ord("0") THEN i + 1
    ELSE IF JDigit(At(t, i)) THEN JDigits(t, i + 1) ELSE 0

\* [ frac ], frac = decimal-point 1*DIGIT
JOptFrac(t, i) == IF At(t, i) = Ord(".") THEN JDigits1(t, i + 1) ELSE i

\* [ exp ], exp = e [ minus / plus ] 1*DIGIT
JOptExp(t, i) ==
    IF At(t, i) \in {Ord("e"), Ord("E")}
    THEN JDigits1(t, IF At(t, i + 1) \in {Ord("-"), Ord("+")} THEN i + 2 ELSE i + 1)
    ELSE i

\* number = [ minus ] int [ frac ] [ exp ]
JNumber(t, i) ==
    LET a == JInt(t, IF At(t, i) = Ord("-") THEN i + 1 ELSE i)
        b == IF a = 0 THEN 0 ELSE JOptFrac(t, a)
    IN IF b = 0 THEN 0 ELSE JOptExp(t, b)

JHex(c) == JDigit(c) \/ (c >= Ord("a") /\ c <= Ord("f")) \/ (c >= Ord("A") /\ c <= Ord("F"))

\* *char quotation-mark, char = unescaped / escape ( one of "\/bfnrt / u 4HEXDIG )
RECURSIVE JChars(_, _)
JChars(t, i) ==
    LET c == At(t, i) IN
    IF c = NoChar \/ c < 32 THEN 0
    ELSE IF c = Ord("\"") THEN i + 1
    ELSE IF c # Ord("\\") THEN JChars(t, i + 1)
    ELSE IF At(t, i + 1) \in {Ord("\""), Ord("\\"), Ord("/"), Ord("b"), Ord("f"),
                              Ord("n"), Ord("r"), Ord("t")}
         THEN JChars(t, i + 2)
    ELSE IF At(t, i + 1) = Ord("u") /\ \A k \in 2..5 : JHex(At(t, i + k))
         THEN JChars(t, i + 6)
    ELSE 0

\* string = quotation-mark *char quotation-mark
JString(t, i) == IF At(t, i) = Ord("\"") THEN JChars(t, i + 1) ELSE 0

JLiteral(t, i, lit) ==
    IF \A k \in 1..Len(lit) : At(t, i + k - 1) = lit[k] THEN i + Len(lit) ELSE 0

RECURSIVE JValue(_, _)
RECURSIVE JElements(_, _)
RECURSIVE JMembers(_, _)

\* value = false / null / true / object / array / number / string
JValue(t, i) ==
    LET c == At(t, i) IN
    CASE c = Ord("{") ->
            LET j == JWs(t, i + 1) IN
            IF At(t, j) = Ord("}") THEN j + 1 ELSE JMembers(t, j)
      [] c = Ord("[") ->
            LET j == JWs(t, i + 1) IN
            IF At(t, j) = Ord("]") THEN j + 1 ELSE JElements(t, j)
      [] c = Ord("\"") -> JString(t, i)
      [] c = Ord("n") -> JLiteral(t, i, Chars(<<"n", "u", "l", "l">>))
      [] c = Ord("t") -> JLiteral(t, i, Chars(<<"t", "r", "u", "e">>))
      [] c = Ord("f") -> JLiteral(t, i, Chars(<<"f", "a", "l", "s", "e">>))
      [] OTHER -> JNumber(t, i)

\* value *( value-separator value ) end-array, from the first value on
JElements(t, i) ==
    LET v == JValue(t, i)
        j == IF v = 0 THEN 0 ELSE JWs(t, v)
    IN
    IF j = 0 THEN 0
    ELSE IF At(t, j) = Ord("]") THEN j + 1
    ELSE IF At(t, j) = Ord(",") THEN JElements(t, JWs(t, j + 1))
    ELSE 0

\* member *( value-separator member ) end-object, member = string name-separator value
JMembers(t, i) ==
    LET s == JString(t, i)
        c == IF s = 0 THEN 0 ELSE JWs(t, s)
        v == IF c = 0 \/ At(t, c) # Ord(":") THEN 0 ELSE JValue(t, JWs(t, c + 1))
        j == IF v = 0 THEN 0 ELSE JWs(t, v)
    IN
    IF j = 0 THEN 0
    ELSE IF At(t, j) = Ord("}") THEN j + 1
    ELSE IF At(t, j) = Ord(",") THEN JMembers(t, JWs(t, j + 1))
    ELSE 0

\* JSON-text = ws value ws
IsJsonText(t) ==
    LET v == JValue(t, JWs(t, 1)) IN
    v # 0 /\ JWs(t, v) = Len(t) + 1

---------------------------------------------------------------------------
(* C1: calling next() until it returns EndDocument or an error ends with   *)
(* EndDocument exactly when the text is one RFC 7159 JSON value surrounded *)
(* by optional whitespace, and with an error for every other text.         *)
C1_ScannerAcceptsExactlyJson ==
    /\ last.tok.type = "EndDocument" => IsJsonText(text)
    /\ ~last.ok => ~IsJsonText(text)

\* the object {"a":1} has been scanned to its EndDocument
C1_Witness ==
    /\ last.tok.type = "EndDocument"
    /\ text = Chars(<<"{", "\"", "a", "\"", ":", "1", "}">>)

---------------------------------------------------------------------------
(* SpecParse: Map::merge_with_settings on a Map, with reader settings and  *)
(* a text.  The call advances from one tokenizer.next() to the following   *)
(* one as far as the text fed so far lets the scanner go.                  *)

ParseNesting ==
    { Chars(<<"{">>), Chars(<<"}">>), Chars(<<"\"", "a", "\"", ":">>), Chars(<<"[">>),
      Chars(<<"]">>), Chars(<<",">>), Chars(<<"1">>), Chars(<<"{", "\"", "a", "\"", ":">>) }

ParseMembers ==
    { Chars(<<"{">>), Chars(<<"}">>), Chars(<<",">>), Chars(<<"\"", "a", "\"", ":", "1">>),
      Chars(<<"\"", "a", "\"", ":", "2">>), Chars(<<"\"", "b", "\"", ":", "[">>),
      Chars(<<"]">>), Chars(<<"t", "r", "u", "e">>) }

ParseTopLevel ==
    { Chars(<<"{">>), Chars(<<"}">>), Chars(<<" ">>), Chars(<<"\t">>), Chars(<<"[">>),
      Chars(<<"\"", "a", "\"">>), Chars(<<"1">>), Chars(<<"n", "u", "l", "l">>) }

ParseIntegers ==
    { Chars(<<"{", "\"", "n", "\"", ":">>), Chars(<<"}">>), Chars(<<"-">>), Chars(<<"0">>),
      Chars(<<"{", "\"", "n", "\"", ":", "9", "2", "2", "3", "3", "7", "2", "0", "3", "6", "8",
              "5", "4", "7", "7", "5", "8", "0">>),
      Chars(<<"{", "\"", "n", "\"", ":", "-", "9", "2", "2", "3", "3", "7", "2", "0", "3", "6", "8",
              "5", "4", "7", "7", "5", "8", "0">>),
      Chars(<<"7">>), Chars(<<"8">>), Chars(<<"9">>) }

ParseFloats ==
    { Chars(<<"{", "\"", "n", "\"", ":">>), Chars(<<"}">>), Chars(<<"-">>), Chars(<<"1">>),
      Chars(<<"1", ".", "7", "9", "7", "7">>), Chars(<<"1", ".", "7", "9", "7", "6">>),
      Chars(<<".", "5">>), Chars(<<"e", "3", "0", "8">>), Chars(<<"e", "3", "0", "9">>),
      Chars(<<"e", "-", "1">>) }

ParseValues ==
    { Chars(<<"{", "\"", "a", "\"", ":">>), Chars(<<"}">>), Chars(<<"[">>), Chars(<<"]">>),
      Chars(<<",">>), Chars(<<"1", ".", "0">>), Chars(<<"1", ".", "5">>), Chars(<<"1", "2">>),
      Chars(<<"1", "e", "2", "0">>), Chars(<<"\"", "\\", "n", "/", "\"">>),
      Chars(<<"{", "\"", "\\", "u", "0", "0", "0", "1", "\"", ":">>) }

ParseOrder ==
    { Chars(<<"{", "\"", "a", "\"", ":", "1">>), Chars(<<",", "\"", "b", "\"", ":", "2">>),
      Chars(<<",", "\"", "c", "\"", ":", "3">>), Chars(<<",", "\"", "a", "\"", ":", "4">>),
      Chars(<<"}">>) }

\* a Map that holds entries before the call
SomeMap == (Chars(<<"a">>) :> NullValue) @@ (Chars(<<"c">>) :> BoolValue(TRUE))

\* a Map that holds an Object before the call
NestedMap ==
    (Chars(<<"a">>) :> ObjectValue(Chars(<<"b">>) :> NullValue)) @@ (Chars(<<"c">>) :> BoolValue(TRUE))

Scenario(family, limit, map) ==
    [pieces |-> family, settings |-> [recursion_limit |-> limit], obj |-> map]

ParseScenarios ==
    { Scenario(ParseNesting, 0, EmptyMap), Scenario(ParseNesting, 1, EmptyMap),
      Scenario(ParseNesting, 2, EmptyMap),
      Scenario(ParseMembers, JsonReaderSettings_default.recursion_limit, EmptyMap),
      Scenario(ParseMembers, JsonReaderSettings_default.recursion_limit, SomeMap),
      Scenario(ParseNesting, JsonReaderSettings_default.recursion_limit, NestedMap),
      Scenario(ParseTopLevel, JsonReaderSettings_default.recursion_limit, EmptyMap),
      Scenario(ParseIntegers, JsonReaderSettings_default.recursion_limit, EmptyMap),
      Scenario(ParseFloats, JsonReaderSettings_default.recursion_limit, EmptyMap),
      Scenario(ParseValues, JsonReaderSettings_default.recursion_limit, EmptyMap),
      Scenario(ParseOrder, JsonReaderSettings_default.recursion_limit, EmptyMap) }

InitParse ==
    /\ text = <<>>
    /\ eof = FALSE
    /\ npieces = 0
    /\ tokenizer = tokenizer_new
    /\ last = NoCall
    /\ stack = <<>>
    /\ result = Idle
    /\ calls = <<>>
    /\ other = EmptyMap
    /\ \E sc \in ParseScenarios :
          /\ pieces = sc.pieces
          /\ settings = sc.settings
          /\ obj0 = sc.obj
          /\ obj = sc.obj

\* the call in progress
State ==
    [tokenizer |-> tokenizer, last |-> last, obj |-> obj, settings |-> settings,
     result |-> result, stack |-> stack]

Running == result.state = "pending"

Executing(fn, pc) == Running /\ stack[Len(stack)].fn = fn /\ stack[Len(stack)].pc = pc

\* the call goes on to st, provided the scanner did not run out of text
Becomes(st) ==
    BindStep(st, LAMBDA to :
        /\ eof \/ ~Starved(to.tokenizer, text)
        /\ tokenizer' = to.tokenizer
        /\ last' = to.last
        /\ obj' = to.obj
        /\ result' = to.result
        /\ stack' = to.stack
        /\ UNCHANGED <<text, eof, npieces, pieces, obj0, settings, calls, other>>)

\* Map::merge_with_settings calls JsonReader::parse
merge_with_settings ==
    /\ result.state = "idle"
    /\ Becomes(parse_begin(obj, settings))

ParseFeed == Running /\ NeedsInput /\ Feed

ParseClose == Running /\ NeedsInput /\ Close

ParseObjectEnter == Executing("parse_object", "enter") /\ Becomes(parse_object_enter(State, text))

ParseObjectLoop == Executing("parse_object", "loop") /\ Becomes(parse_object_loop(State, text))

ParseValueType == Executing("parse_value_type", "next") /\ Becomes(parse_value_type(State, text))

ParseArray == Executing("parse_array", "loop") /\ Becomes(parse_array(State, text))

ParseEnd == Executing("parse", "end") /\ Becomes(parse_end(State, text))

NextParse ==
    \/ merge_with_settings
    \/ ParseFeed
    \/ ParseClose
    \/ ParseObjectEnter
    \/ ParseObjectLoop
    \/ ParseValueType
    \/ ParseArray
    \/ ParseEnd

SpecParse == InitParse /\ [][NextParse]_vars

---------------------------------------------------------------------------
(* What a text says, read off its characters. *)

\* the first character that is no whitespace, NoChar when there is none
FirstNonWs(t) == At(t, JWs(t, 1))

\* one JSON value, an object, surrounded by optional whitespace
IsJsonObjectText(t) == IsJsonText(t) /\ FirstNonWs(t) = Ord("{")

\* the deepest nesting of '{' outside strings in t from i on; arrays do not count
RECURSIVE DeepestObject(_, _, _, _)
DeepestObject(t, i, in_string, depth) ==
    IF i > Len(t) THEN depth
    ELSE IF in_string
    THEN IF t[i] = Ord("\\") THEN DeepestObject(t, i + 2, TRUE, depth)
         ELSE DeepestObject(t, i + 1, t[i] # Ord("\""), depth)
    ELSE IF t[i] = Ord("{")
    THEN Bind(DeepestObject(t, i + 1, FALSE, depth + 1), LAMBDA rest :
         IF rest > depth + 1 THEN rest ELSE depth + 1)
    ELSE IF t[i] = Ord("}") THEN
         Bind(DeepestObject(t, i + 1, FALSE, depth - 1), LAMBDA rest :
         IF rest > depth THEN rest ELSE depth)
    ELSE DeepestObject(t, i + 1, t[i] = Ord("\""), depth)

MaxObjectDepth(t) == DeepestObject(t, 1, FALSE, 0)

---------------------------------------------------------------------------
(* What an object text denotes, read off its tokens: a string, a number    *)
(* (its token text), a literal, an array (its elements in source order)    *)
(* or an object (its members in source order, each a name and a value).    *)

RECURSIVE TokensFrom(_, _, _)
TokensFrom(tz, txt, acc) ==
    Bind(next(tz, txt), LAMBDA r :
    IF ~r.ok \/ r.tok.type = "EndDocument" THEN acc
    ELSE TokensFrom(r.tz, txt, Append(acc, r.tok)))

\* the tokens of the text up to EndDocument
Tokens(txt) == TokensFrom(tokenizer_new, txt, <<>>)

Denoted(val, i) == [val |-> val, next |-> i]

RECURSIVE DenoteValue(_, _), DenoteElements(_, _, _), DenoteMembers(_, _, _)

\* the value that starts at token i, and the index of the token after it
DenoteValue(toks, i) ==
    CASE toks[i].type = "StartArray" -> DenoteElements(toks, i + 1, <<>>)
      [] toks[i].type = "StartObject" -> DenoteMembers(toks, i + 1, <<>>)
      [] toks[i].type = "Null" -> Denoted([kind |-> "null"], i + 1)
      [] toks[i].type = "True" -> Denoted([kind |-> "bool", b |-> TRUE], i + 1)
      [] toks[i].type = "False" -> Denoted([kind |-> "bool", b |-> FALSE], i + 1)
      [] toks[i].type = "StringValue" -> Denoted([kind |-> "string", s |-> toks[i].text], i + 1)
      [] toks[i].type = "Number" -> Denoted([kind |-> "number", text |-> toks[i].text], i + 1)

DenoteElements(toks, i, elements) ==
    IF toks[i].type = "EndArray"
    THEN Denoted([kind |-> "array", elements |-> elements], i + 1)
    ELSE Bind(DenoteValue(toks, i), LAMBDA e :
         DenoteElements(toks, e.next, Append(elements, e.val)))

DenoteMembers(toks, i, members) ==
    IF toks[i].type = "EndObject"
    THEN Denoted([kind |-> "object", members |-> members], i + 1)
    ELSE Bind(DenoteValue(toks, i + 1), LAMBDA m :
         DenoteMembers(toks, m.next, Append(members, [name |-> toks[i].text, val |-> m.val])))

\* what a text that is one JSON value denotes
Denotation(txt) == DenoteValue(Tokens(txt), 1).val

MemberNames(members) == {members[k].name : k \in 1..Len(members)}

\* the last member of that name
LastMember(members, name) ==
    members[CHOOSE j \in 1..Len(members) :
                /\ members[j].name = name
                /\ \A k \in (j + 1)..Len(members) : members[k].name # name]

RECURSIVE Matches(_, _)

\* the Map is `before` with the members put into it
MatchesMembers(map, members, before) ==
    /\ DOMAIN map = DOMAIN before \cup MemberNames(members)
    /\ \A name \in MemberNames(members) : Matches(map[name], LastMember(members, name).val)
    /\ \A name \in DOMAIN before \ MemberNames(members) : map[name] = before[name]

\* the Value is the one the denotation stands for
Matches(val, den) ==
    CASE den.kind = "null" -> val.kind = "Null"
      [] den.kind = "bool" -> val.kind = "Bool" /\ val.b = den.b
      [] den.kind = "string" -> val.kind = "String" /\ val.s = den.s
      [] den.kind = "number" ->
            /\ val.kind \in {"I64", "F64"}
            /\ val.kind = parse_single_value(TokText("Number", den.text)).val.kind
            /\ val = parse_single_value(TokText("Number", den.text)).val
      [] den.kind = "array" ->
            /\ val.kind = "Vec"
            /\ Len(val.items) = Len(den.elements)
            /\ \A k \in 1..Len(den.elements) : Matches(val.items[k], den.elements[k])
      [] den.kind = "object" ->
            /\ val.kind = "Object"
            /\ MatchesMembers(val.map, den.members, EmptyMap)

\* parse_value_type has just converted the Number token `last.tok`
Converted ==
    /\ last.ok
    /\ last.tok.type = "Number"
    /\ tokenizer.buffered_token = <<>>
    /\ result # Err(Error("Expected an object"))

\* the Value parse_value_type has just returned to parse_object or parse_array
Delivered ==
    IF stack[Len(stack)].fn = "parse_array"
    THEN stack[Len(stack)].vec[Len(stack[Len(stack)].vec)]
    ELSE IF stack[Len(stack)].obj = 0 THEN obj[stack[Len(stack)].name]
    ELSE stack[stack[Len(stack)].obj].nested_obj[stack[Len(stack)].name]

\* an optional '-' followed by digits only
IsIntegerText(str) ==
    /\ str # <<>>
    /\ \A k \in 1..Len(str) : IsDigit(str[k]) \/ (k = 1 /\ str[k] = Ord("-"))
    /\ \E k \in 1..Len(str) : IsDigit(str[k])

IsNegative(str) == str # <<>> /\ str[1] = Ord("-")

\* the digits of an integer text, without leading zeros
Magnitude(str) ==
    StripLeadingZeros([k \in 1..(Len(str) - (IF IsNegative(str) THEN 1 ELSE 0)) |->
                          str[k + (IF IsNegative(str) THEN 1 ELSE 0)] - Ord("0")])

\* 2^63 = 9223372036854775808
TwoTo63 == <<9, 2, 2, 3, 3, 7, 2, 0, 3, 6, 8, 5, 4, 7, 7, 5, 8, 0, 8>>

\* a < b for numbers given by their digits, no leading zeros
NumberLess(a, b) ==
    \/ Len(a) < Len(b)
    \/ /\ Len(a) = Len(b)
       /\ \E k \in 1..Len(a) : a[k] < b[k] /\ \A j \in 1..(k - 1) : a[j] = b[j]

\* -2^63 <= the integer <= 2^63 - 1
InI64Range(str) ==
    \/ NumberLess(Magnitude(str), TwoTo63)
    \/ IsNegative(str) /\ Magnitude(str) = TwoTo63

RECURSIVE AllFinite(_)
AllFinite(val) ==
    CASE val.kind = "F64" -> val.class \in {"zero", "finite"}
      [] val.kind = "Vec" -> \A k \in 1..Len(val.items) : AllFinite(val.items[k])
      [] val.kind = "Object" -> \A key \in DOMAIN val.map : AllFinite(val.map[key])
      [] OTHER -> TRUE

---------------------------------------------------------------------------
(* C2: when parse returns an error the Map holds exactly the entries it    *)
(* held before the call: nothing of the failed document was inserted or    *)
(* overwritten.                                                            *)
C2_NoPartialResultOnError == result.state = "Err" => obj = obj0

(* C3: parse succeeds only on a text whose objects nest at most            *)
(* recursion_limit deep (top-level object = 1, arrays not counted); it     *)
(* fails with the depth error naming the limit exactly when the scanner    *)
(* has entered an object at depth recursion_limit + 1, and that happens on *)
(* the StartObject token of the first such object; an otherwise valid      *)
(* object text within the limit does not fail; the default limit is 100.   *)
C3_RecursionLimit ==
    /\ result.state = "Ok" => MaxObjectDepth(text) <= settings.recursion_limit
    /\ result = Err(DepthError(settings.recursion_limit))
          <=> tokenizer.object_depth > settings.recursion_limit
    /\ result.state = "Err" /\ result.err.msg = DepthError(0).msg
          => /\ result.err.limit = settings.recursion_limit
             /\ last.tok.type = "StartObject"
             /\ tokenizer.object_depth = settings.recursion_limit + 1
             /\ MaxObjectDepth(text) = settings.recursion_limit + 1
    /\ result.state = "Err" /\ IsJsonObjectText(text)
            /\ MaxObjectDepth(text) <= settings.recursion_limit
          => result.err.msg = "Reject special value"
    /\ JsonReaderSettings_default.recursion_limit = 100

\* limit 2 rejects three nested objects
C3_Witness ==
    /\ settings.recursion_limit = 2
    /\ text = Chars(<<"{", "\"", "a", "\"", ":", "{", "\"", "a", "\"", ":", "{", "\"", "a", "\"", ":">>)
    /\ result = Err(DepthError(2))

(* C4: the activations of parse_object and parse_array nested in one       *)
(* another never exceed recursion_limit + 1, the most that objects alone   *)
(* can reach: arrays count towards the limit as objects do.                *)
C4_ArrayNestingBounded ==
    Cardinality({k \in 1..Len(stack) : stack[k].fn \in {"parse_object", "parse_array"}})
        <= settings.recursion_limit + 1

(* C5: parse returns Ok only when the whole text was read and it is one    *)
(* object surrounded by optional whitespace; a text whose first token is   *)
(* not StartObject (an array, string, number, literal, or nothing at all)  *)
(* gets an error from the first token on, "Expected an object" when the    *)
(* scanner delivered a token; an object followed only by whitespace is     *)
(* not rejected for what follows it.                                       *)
C5_SingleTopLevelObject ==
    /\ result.state = "Ok" => eof /\ IsJsonObjectText(text)
    /\ FirstNonWs(text) # Ord("{") =>
          /\ result.state # "Ok"
          /\ result.state = "pending" => stack = parse_begin(obj0, settings).stack
          /\ result.state = "Err" /\ last.ok => result.err = Error("Expected an object")
    /\ result.state = "Err" /\ IsJsonObjectText(text)
          => result.err.msg \in {DepthError(0).msg, "Reject special value"}

\* an object followed by whitespace is accepted
C5_Witness ==
    /\ result.state = "Ok"
    /\ text = Chars(<<"{", "}", " ", "\t">>)

(* C6: a tree built by a successful parse, written with the default writer *)
(* settings and parsed again into an empty Map, parses and gives a tree    *)
(* equal to it: the same keys, each with a value of the same variant and   *)
(* content.                                                                *)
C6_RoundTrip ==
    result.state = "Ok" =>
        \A json \in format(obj) :
            /\ parse(EmptyMap, settings, json).result.state = "Ok"
            /\ map_eq(parse(EmptyMap, settings, json).obj, obj)

C9_IntegerPriority ==
    Converted =>
        IF IsIntegerText(last.tok.text) /\ InI64Range(last.tok.text)
        THEN /\ result.state # "Err"
             /\ Delivered.kind = "I64"
             /\ Delivered.mag = Magnitude(last.tok.text)
             /\ Delivered.neg = (IsNegative(last.tok.text) /\ Magnitude(last.tok.text) # <<0>>)
        ELSE \/ result = Err(Error("Reject special value"))
             \/ result.state # "Err" /\ Delivered.kind = "F64"

\* -9223372036854775808 is an Integer
C9_Witness ==
    /\ result.state = "Ok"
    /\ text = Chars(<<"{", "\"", "n", "\"", ":", "-", "9", "2", "2", "3", "3", "7", "2", "0", "3", "6",
                      "8", "5", "4", "7", "7", "5", "8", "0", "8", "}">>)
    /\ obj = (Chars(<<"n">>) :> I64Value([neg |-> TRUE, mag |-> TwoTo63]))

(* C10: no Map and no value under construction holds a Float that is not   *)
(* finite; a Number token the scanner delivered whose f64 conversion is    *)
(* infinite, such as 1.7977e308, -1.7977e308 and 1e309, makes parse fail   *)
(* with "Reject special value".                                            *)
C10_NoNonFiniteFloat ==
    /\ AllFinite(ObjectValue(obj))
    /\ \A k \in 1..Len(stack) :
          AllFinite(ObjectValue(stack[k].nested_obj)) /\ AllFinite(VecValue(stack[k].vec))
    /\ (Converted /\ ~parse_i64(last.tok.text).ok /\ parse_f64(last.tok.text).class \in {"inf", "nan"})
          => result = Err(Error("Reject special value"))
    /\ (/\ Converted
        /\ last.tok.text \in { Chars(<<"1", ".", "7", "9", "7", "7", "E", "3", "0", "8">>),
                               Chars(<<"-", "1", ".", "7", "9", "7", "7", "E", "3", "0", "8">>),
                               Chars(<<"1", "E", "3", "0", "9">>) })
          => result = Err(Error("Reject special value"))

\* -1.7977e308 is scanned as a Number and rejected by parse
C10_Witness ==
    /\ result = Err(Error("Reject special value"))
    /\ last.ok
    /\ last.tok = TokText("Number", Chars(<<"-", "1", ".", "7", "9", "7", "7", "E", "3", "0", "8">>))
    /\ text = Chars(<<"{", "\"", "n", "\"", ":", "-", "1", ".", "7", "9", "7", "7", "e", "3", "0", "8",
                      "}">>)


---------------------------------------------------------------------------
\* the value of a hexadecimal digit, upper or lower case
HexDigitValue(c) ==
    IF JDigit(c) THEN c - Ord("0")
    ELSE IF c >= Ord("a") /\ c <= Ord("f") THEN c - Ord("a") + 10
    ELSE c - Ord("A") + 10

\* the 16-bit value written by the four hex digits that start at index i
CodeUnit(t, i) ==
    4096 * HexDigitValue(t[i]) + 256 * HexDigitValue(t[i + 1])
        + 16 * HexDigitValue(t[i + 2]) + HexDigitValue(t[i + 3])

\* a code unit that is a Unicode scalar value: not a surrogate
IsScalar(n) == n < 55296 \/ n > 57343

\* the text is a string holding one \u escape and nothing else
IsOneUnicodeEscape(t) ==
    /\ Len(t) = 8
    /\ t[1] = Ord("\"") /\ t[2] = Ord("\\") /\ t[3] = Ord("u") /\ t[8] = Ord("\"")
    /\ \A k \in 4..7 : JHex(t[k])

(* C11: the escape \u h1h2h3h4 appends exactly one character, whose code   *)
(* is the full 16-bit value 4096*h1 + 256*h2 + 16*h3 + h4 when that is a   *)
(* Unicode scalar: the string "\u09af" is the one character U+09AF.       *)
C11_UnicodeEscapeFullValue ==
    (/\ IsOneUnicodeEscape(text)
     /\ IsScalar(CodeUnit(text, 4))
     /\ last.ok /\ last.tok.type = "StringValue")
        => last.tok.text = <<CodeUnit(text, 4)>>

---------------------------------------------------------------------------
\* the characters a number literal can be written with
NumberChars ==
    {Ord("-"), Ord("+"), Ord("."), Ord("e"), Ord("E")} \cup {c \in 48..57 : TRUE}

\* the index after the last character the scanner has consumed for a token:
\* a character it read ahead and pushed back is not consumed
ConsumedEnd(tz, t) ==
    IF tz.proxy.reader.next_char # NoChar THEN tz.proxy.reader.pos - 1
    ELSE IF tz.proxy.reader.pos > Len(t) THEN Len(t) + 1
    ELSE tz.proxy.reader.pos

\* the index at which the run of number characters that ends before e starts
RECURSIVE LiteralStart(_, _)
LiteralStart(t, e) == IF At(t, e - 1) \in NumberChars THEN LiteralStart(t, e - 1) ELSE e

\* the number literal the scanner has just consumed, as it is written
LiteralRead(tz, t) == SubSeq(t, LiteralStart(t, ConsumedEnd(tz, t)), ConsumedEnd(tz, t) - 1)

(* C12: the text of a Number token is, character for character, the input  *)
(* characters consumed for the literal: sign, digits, '.', the exponent    *)
(* marker as written ('e' or 'E'), exponent sign and digits; nothing is    *)
(* added, dropped or rewritten.                                            *)
C12_NumberTextVerbatim ==
    (last.ok /\ last.tok.type = "Number") => last.tok.text = LiteralRead(tokenizer, text)

---------------------------------------------------------------------------
(* SpecStream: a driver that uses a fresh JsonTokenizer directly, as the   *)
(* tokenizer's tests do: it calls next(), pushes back the token that       *)
(* next() returned last (or, while a token is buffered, any token of its   *)
(* latest calls), and calls skip_value() right after a Name.  It stops at  *)
(* the first error of the scanner, except that it may go on calling next() *)
(* after the end of the document.  `calls` holds its latest three calls,   *)
(* each with the tokenizer it was made on.                                 *)

StreamDocument ==
    { Chars(<<"{", "\"", "a", "\"", ":">>), Chars(<<",", "\"", "b", "\"", ":">>), Chars(<<"{">>),
      Chars(<<"}">>), Chars(<<"[">>), Chars(<<"]">>), Chars(<<"1">>),
      Chars(<<"[", "1", ",", "{", "\"", "b", "\"", ":", "[", "]", "}", "]">>) }

StreamFamilies == {StreamDocument}

StreamCall(op, arg, r, before) ==
    [op |-> op, arg |-> arg, ok |-> r.ok, err |-> r.err, tok |-> r.tok, before |-> before]

Logged(c) == IF Len(calls) < 3 THEN Append(calls, c) ELSE Append(Tail(calls), c)

Latest == calls[Len(calls)]

AfterEndOfDocument == "Next() called after end of document"

\* no call of the scanner has failed, unless for being past the end
StreamRunning ==
    IF calls = <<>> THEN TRUE
    ELSE IF Latest.ok THEN TRUE
    ELSE Latest.err \in {AfterEndOfDocument, "Can't push back twice"}

\* the tokens the driver may push back: the one next() returned last or,
\* while a token is buffered, any token of its latest calls
Pushable ==
    (IF calls = <<>> THEN {}
     ELSE IF tokenizer.buffered_token = <<>> THEN {Latest.tok}
     ELSE {calls[k].tok : k \in 1..Len(calls)} \cup {calls[k].arg : k \in 1..Len(calls)})
        \ {Tok("None")}

\* next() has just returned a Name
AfterName ==
    IF calls = <<>> THEN FALSE
    ELSE Latest.op = "next" /\ Latest.ok /\ Latest.tok.type = "Name"

StreamNeedsInput ==
    /\ ~eof
    /\ StreamRunning
    /\ IF Starved(next(tokenizer, text).tz, text) THEN TRUE
       ELSE AfterName /\ Starved(skip_value(tokenizer, text).tz, text)

StreamFeed == StreamNeedsInput /\ Feed

StreamClose == StreamNeedsInput /\ Close

\* the driver's call has returned r
Returned(op, arg, r) ==
    /\ eof \/ ~Starved(r.tz, text)
    /\ tokenizer' = r.tz
    /\ last' = CallOf(r)
    /\ calls' = Logged(StreamCall(op, arg, r, tokenizer))
    /\ UNCHANGED <<text, eof, npieces, pieces, stack, obj, obj0, settings, result, other>>

StreamNext == StreamRunning /\ Returned("next", Tok("None"), next(tokenizer, text))

StreamPushBack ==
    /\ StreamRunning
    /\ \E token \in Pushable : Returned("push_back", token, push_back(tokenizer, token))

StreamSkipValue == AfterName /\ Returned("skip_value", Tok("None"), skip_value(tokenizer, text))

InitStream == InitInput(StreamFamilies) /\ InitIdleReader

NextStream == StreamFeed \/ StreamClose \/ StreamNext \/ StreamPushBack \/ StreamSkipValue

SpecStream == InitStream /\ [][NextStream]_vars

---------------------------------------------------------------------------
\* the number of Object entries on the scanner's container stack
OpenObjects(tz) ==
    Cardinality({k \in 1..Len(tz.proxy.container_stack) : tz.proxy.container_stack[k] = "Object"})

\* how often the character c occurs in the text t
Occurrences(c, t) == Cardinality({k \in 1..Len(t) : t[k] = c})

\* the number of '{' read and not yet closed (no string of the text holds a brace)
OpenBraces(tz, t) ==
    Occurrences(Ord("{"), SubSeq(t, 1, ConsumedEnd(tz, t) - 1))
        - Occurrences(Ord("}"), SubSeq(t, 1, ConsumedEnd(tz, t) - 1))

(* C13: whenever no token is buffered, object_depth is the number of       *)
(* Object entries on the scanner's container stack, which is the number of *)
(* '{' read and not yet closed; a next() that returns StartArray,          *)
(* EndArray, a Name or a value leaves object_depth as it was.              *)
C13_ObjectDepthCountsOpenObjects ==
    /\ tokenizer.buffered_token = <<>> =>
          /\ tokenizer.object_depth = OpenObjects(tokenizer)
          /\ StreamRunning => tokenizer.object_depth = OpenBraces(tokenizer, text)
    /\ IF calls = <<>> THEN TRUE
       ELSE (Latest.op = "next" /\ Latest.ok /\ Latest.tok.type \notin {"StartObject", "EndObject"})
                => tokenizer.object_depth = Latest.before.object_depth

\* next() has returned the StartObject of an object inside an array inside an object
C13_Witness ==
    /\ calls # <<>>
    /\ tokenizer.buffered_token = <<>>
    /\ tokenizer.object_depth = 2
    /\ tokenizer.proxy.container_stack = <<"Document", "Object", "Array", "Object">>
    /\ Latest.op = "next" /\ Latest.ok /\ Latest.tok.type = "StartObject"

---------------------------------------------------------------------------
\* the tokenizer as the k-th of the logged calls left it
After(k) == IF k = Len(calls) THEN tokenizer ELSE calls[k + 1].before

\* the logged calls k and k + 1 are t = next() and push_back(t)
NextThenPushBack(k) ==
    /\ calls[k].op = "next" /\ calls[k].ok
    /\ calls[k + 1].op = "push_back" /\ calls[k + 1].ok

(* C14: push_back undoes next: after t = next() and push_back(t),          *)
(* object_depth is what it was before that next() (which had added one for *)
(* StartObject, taken one off for EndObject and changed nothing for other  *)
(* tokens); the next() that follows returns t again, applies the same      *)
(* change of depth and takes nothing from the scanner.                     *)
C14_PushBackInvertsNext ==
    /\ \A k \in 1..(Len(calls) - 1) :
          NextThenPushBack(k) =>
              /\ calls[k + 1].tok = calls[k].tok
              /\ After(k).object_depth - calls[k].before.object_depth =
                    (CASE calls[k].tok.type = "StartObject" -> 1
                       [] calls[k].tok.type = "EndObject" -> -1
                       [] OTHER -> 0)
              /\ After(k + 1).object_depth = calls[k].before.object_depth
              /\ After(k + 1).proxy = After(k).proxy
    /\ (Len(calls) = 3 /\ NextThenPushBack(1) /\ calls[3].op = "next") =>
          /\ calls[3].ok
          /\ calls[3].tok = calls[1].tok
          /\ tokenizer.object_depth = After(1).object_depth
          /\ tokenizer.proxy = After(1).proxy
          /\ tokenizer.buffered_token = <<>>

\* an EndObject at depth 2 was returned, pushed back and returned again
C14_Witness ==
    /\ Len(calls) = 3
    /\ NextThenPushBack(1)
    /\ calls[1].tok.type = "EndObject"
    /\ calls[1].before.object_depth = 2
    /\ calls[3].op = "next" /\ calls[3].ok
    /\ tokenizer.object_depth = 1

---------------------------------------------------------------------------
(* C15: the pushback buffer holds one token: push_back called while a      *)
(* token is buffered returns the error "Can't push back twice" and leaves  *)
(* the buffered token, object_depth and the scanner as they were; the      *)
(* next() that follows still returns the token buffered first.             *)
C15_PushBackSingleSlot ==
    \A k \in 1..Len(calls) :
        (calls[k].op = "push_back" /\ calls[k].before.buffered_token # <<>>) =>
            /\ ~calls[k].ok
            /\ calls[k].err = "Can't push back twice"
            /\ After(k) = calls[k].before
            /\ (k < Len(calls) /\ calls[k + 1].op = "next") =>
                  /\ calls[k + 1].ok
                  /\ calls[k + 1].tok = calls[k].before.buffered_token[1]

\* with a Name buffered, pushing back a StartObject failed, and next() returned the Name
C15_Witness ==
    /\ Len(calls) = 3
    /\ calls[1].op = "push_back" /\ calls[1].ok /\ calls[1].arg.type = "Name"
    /\ calls[2].op = "push_back" /\ ~calls[2].ok /\ calls[2].arg.type = "StartObject"
    /\ calls[3].op = "next" /\ calls[3].tok.type = "Name"

---------------------------------------------------------------------------
\* the logged call k is a next() that returned EndDocument
ReturnedEndDocument(k) ==
    calls[k].op = "next" /\ calls[k].ok /\ calls[k].tok.type = "EndDocument"

\* the logged call k is a next() that failed for being past the end
FailedPastEnd(k) ==
    calls[k].op = "next" /\ ~calls[k].ok /\ calls[k].err = "Next() called after end of document"

(* C16: EndDocument is terminal.  Once the scanner has emitted EndDocument *)
(* every further next() made with an empty pushback buffer returns the     *)
(* error "Next() called after end of document"; when EndDocument is pushed *)
(* back, the following next() returns EndDocument, once, and the call      *)
(* after that returns the error.                                           *)
C16_EndDocumentTerminal ==
    /\ \A k \in 1..Len(calls) :
          \* the scanner emits EndDocument once, and is exhausted from then on
          /\ (ReturnedEndDocument(k) /\ calls[k].before.buffered_token = <<>>) =>
                /\ calls[k].before.proxy.state # "READER_EXHAUSTED"
                /\ After(k).proxy.state = "READER_EXHAUSTED"
          /\ calls[k].before.proxy.state = "READER_EXHAUSTED" =>
                After(k).proxy.state = "READER_EXHAUSTED"
          /\ (/\ calls[k].op = "next"
              /\ calls[k].before.proxy.state = "READER_EXHAUSTED"
              /\ calls[k].before.buffered_token = <<>>) => FailedPastEnd(k)
    /\ \A k \in 1..(Len(calls) - 1) :
          /\ (ReturnedEndDocument(k) /\ calls[k + 1].op = "next") => FailedPastEnd(k + 1)
          /\ (FailedPastEnd(k) /\ calls[k + 1].op = "next") => FailedPastEnd(k + 1)
          /\ (/\ calls[k].op = "push_back" /\ calls[k].ok /\ calls[k].arg.type = "EndDocument"
              /\ calls[k + 1].op = "next") =>
                /\ ReturnedEndDocument(k + 1)
                /\ (k + 2 = Len(calls) /\ calls[k + 2].op = "next") => FailedPastEnd(k + 2)

\* EndDocument was pushed back and returned again, and the next() after that failed
C16_Witness ==
    /\ Len(calls) = 3
    /\ calls[1].op = "push_back" /\ calls[1].ok /\ calls[1].arg.type = "EndDocument"
    /\ ReturnedEndDocument(2)
    /\ FailedPastEnd(3)

---------------------------------------------------------------------------
\* the index at which the value skipped by the logged call k starts: after
\* the ':' that follows the Name consumed before it
SkippedFrom(k) ==
    IF At(text, JWs(text, ConsumedEnd(calls[k].before, text))) = Ord(":")
    THEN JWs(text, JWs(text, ConsumedEnd(calls[k].before, text)) + 1)
    ELSE 0

(* C17: skip_value called right after next() returned a Name consumes      *)
(* exactly the text of that property's value, one token or a whole nested  *)
(* object or array, whenever the text holds one there: object_depth is     *)
(* what it was before the call, and the next() that follows returns the    *)
(* Name of the next sibling or the EndObject of the enclosing object.      *)
C17_SkipValueSkipsOneValue ==
    \A k \in 1..Len(calls) :
        calls[k].op = "skip_value" =>
            /\ calls[k].ok <=> JValue(text, SkippedFrom(k)) # 0
            /\ calls[k].ok =>
                  /\ ConsumedEnd(After(k), text) = JValue(text, SkippedFrom(k))
                  /\ After(k).object_depth = calls[k].before.object_depth
                  /\ After(k).buffered_token = <<>>
                  /\ (k < Len(calls) /\ calls[k + 1].op = "next" /\ calls[k + 1].ok) =>
                        calls[k + 1].tok.type \in {"Name", "EndObject"}

\* the value [1,{"b":[]}] of "a" was skipped, and next() returned the Name "b"
C17_Witness ==
    /\ Len(calls) = 3
    /\ calls[2].op = "skip_value" /\ calls[2].ok
    /\ SubSeq(text, SkippedFrom(2), ConsumedEnd(calls[3].before, text) - 1)
          = Chars(<<"[", "1", ",", "{", "\"", "b", "\"", ":", "[", "]", "}", "]">>)
    /\ calls[3].op = "next" /\ calls[3].tok = TokText("Name", Chars(<<"b">>))

---------------------------------------------------------------------------
\* the tokens next() has returned on the way from a fresh tokenizer to tz
RECURSIVE TokensUpTo(_, _, _, _)
TokensUpTo(tz, target, txt, acc) ==
    IF tz = target THEN acc
    ELSE Bind(next(tz, txt), LAMBDA r :
         IF ~r.ok THEN acc ELSE TokensUpTo(r.tz, target, txt, Append(acc, r.tok)))

ReturnedTokens == TokensUpTo(tokenizer_new, tokenizer, text, <<>>)

\* the containers left open by a token sequence in which every End token closes
\* the most recent unclosed Start token of its kind; <<"unbalanced">> otherwise
RECURSIVE OpenAfter(_, _, _)
OpenAfter(toks, i, open) ==
    IF i > Len(toks) THEN open
    ELSE CASE toks[i].type \in {"StartObject", "StartArray"} ->
                 OpenAfter(toks, i + 1, Append(open, toks[i].type))
           [] toks[i].type \in {"EndObject", "EndArray"} ->
                 IF open # <<>> /\ open[Len(open)] =
                        (IF toks[i].type = "EndObject" THEN "StartObject" ELSE "StartArray")
                 THEN OpenAfter(toks, i + 1, SubSeq(open, 1, Len(open) - 1))
                 ELSE <<"unbalanced">>
           [] OTHER -> OpenAfter(toks, i + 1, open)

WellNested(toks) == OpenAfter(toks, 1, <<>>) # <<"unbalanced">>

Brackets == {Ord("{"), Ord("}"), Ord("["), Ord("]")}

\* the brackets of a text, in order (no string of the texts holds a bracket)
RECURSIVE BracketsOf(_)
BracketsOf(t) ==
    IF t = <<>> THEN <<>>
    ELSE IF Head(t) \in Brackets THEN <<Head(t)>> \o BracketsOf(Tail(t))
    ELSE BracketsOf(Tail(t))

\* the brackets that a token sequence stands for
RECURSIVE BracketsFor(_)
BracketsFor(toks) ==
    IF toks = <<>> THEN <<>>
    ELSE (CASE Head(toks).type = "StartObject" -> <<Ord("{")>>
            [] Head(toks).type = "EndObject" -> <<Ord("}")>>
            [] Head(toks).type = "StartArray" -> <<Ord("[")>>
            [] Head(toks).type = "EndArray" -> <<Ord("]")>>
            [] OTHER -> <<>>) \o BracketsFor(Tail(toks))

\* the text starts with the characters s, and the scanner has consumed them
HasRead(s) ==
    /\ Len(text) >= Len(s)
    /\ SubSeq(text, 1, Len(s)) = s
    /\ ConsumedEnd(tokenizer, text) > Len(s)

(* C18: the tokens the scanner returns are properly nested: every          *)
(* EndObject closes the most recent unclosed StartObject and every         *)
(* EndArray the most recent unclosed StartArray, each token standing for   *)
(* the bracket that was read; no End token comes with nothing open.  The   *)
(* texts "{]" and "[}" and a leading '}' or ']' give an error.             *)
C18_ProperlyNestedTokens ==
    /\ WellNested(ReturnedTokens)
    /\ last.ok => BracketsFor(ReturnedTokens)
                    = BracketsOf(SubSeq(text, 1, ConsumedEnd(tokenizer, text) - 1))
    /\ \A s \in {Chars(<<"{", "]">>), Chars(<<"[", "}">>), Chars(<<"}">>), Chars(<<"]">>)} :
          HasRead(s) => ~last.ok /\ Len(ReturnedTokens) = Len(s) - 1

\* the tokens of [{}] have been returned
C18_Witness ==
    /\ last.ok /\ last.tok.type = "EndArray"
    /\ ReturnedTokens = <<Tok("StartArray"), Tok("StartObject"), Tok("EndObject"), Tok("EndArray")>>

---------------------------------------------------------------------------
(* C19: the text of every Number token matches the JSON number grammar: an *)
(* optional '-', then a single '0' or a non-zero digit followed by digits, *)
(* then optionally '.' and at least one digit, then optionally an exponent *)
(* marker, an optional sign and at least one digit.                        *)
C19_NumberTextIsJsonNumber ==
    (last.ok /\ last.tok.type = "Number") =>
        JNumber(last.tok.text, 1) = Len(last.tok.text) + 1

\* a Number token with a fraction and an exponent was returned
C19_Witness ==
    /\ last.ok /\ last.tok.type = "Number"
    /\ last.tok.text = Chars(<<"1", ".", "0", "E", "1">>)

---------------------------------------------------------------------------
\* the character at index i is known not to be a digit: it is there and is
\* none, or the text ends before it
NoDigitAt(i) == ~JDigit(At(text, i)) /\ (i <= Len(text) \/ eof)

\* where the literal that starts the text begins, and where its digits begin
LiteralAt == JWs(text, 1)
IntAt == IF At(text, LiteralAt) = Ord("-") THEN LiteralAt + 1 ELSE LiteralAt

\* the index after the integer digits, and after the fraction if there is one
IntEnd == JDigits(text, IntAt)
FracEnd == IF At(text, IntEnd) = Ord(".") THEN JDigits(text, IntEnd + 1) ELSE IntEnd

\* the index after the exponent marker at FracEnd and its optional sign
ExpDigitsAt == IF At(text, FracEnd + 1) \in {Ord("-"), Ord("+")} THEN FracEnd + 2 ELSE FracEnd + 1

StartsWithPlusOrPoint == At(text, LiteralAt) \in {Ord("+"), Ord(".")}
MinusWithoutDigit == At(text, LiteralAt) = Ord("-") /\ NoDigitAt(IntAt)
DigitAfterLeadingZero == At(text, IntAt) = Ord("0") /\ JDigit(At(text, IntAt + 1))
PointWithoutDigit == JDigit(At(text, IntAt)) /\ At(text, IntEnd) = Ord(".") /\ NoDigitAt(IntEnd + 1)
ExponentWithoutDigit ==
    /\ JDigit(At(text, IntAt))
    /\ At(text, FracEnd) \in {Ord("e"), Ord("E")}
    /\ NoDigitAt(ExpDigitsAt)

\* the text starts with a malformed number literal
MalformedNumber ==
    \/ StartsWithPlusOrPoint
    \/ MinusWithoutDigit
    \/ DigitAfterLeadingZero
    \/ PointWithoutDigit
    \/ ExponentWithoutDigit

(* C20: a malformed number literal is rejected by the next() that starts   *)
(* it, and no Number token is returned for it: a digit right after a       *)
(* leading '0', a '-' with no digit after it, a '.' with no digit after    *)
(* it, an exponent marker with no digit after its optional sign, and a     *)
(* literal that starts with '+' or '.'.                                    *)
C20_MalformedNumberRejected ==
    (MalformedNumber /\ tokenizer # tokenizer_new) =>
        /\ ~last.ok
        /\ ReturnedTokens = <<>>

\* the text 1e- was rejected by the first next()
C20_Witness ==
    /\ text = Chars(<<"1", "e", "-">>)
    /\ eof
    /\ ExponentWithoutDigit
    /\ ~last.ok
    /\ tokenizer # tokenizer_new

---------------------------------------------------------------------------
(* SpecString: a string is built character by character, written with     *)
(* JsonWriter::write_string, and what was written is handed to a fresh     *)
(* JsonTokenizer whose next() is called once.  `text` is the string.       *)

\* the characters write_string escapes with a backslash and a letter
StringEscaped == {<<Ord("\"")>>, <<Ord("\\")>>, <<Ord("/")>>, <<8>>, <<12>>, <<Ord("a")>>}

\* control characters, some with an escape of their own, some written as \u
StringControls == {<<Ord("\n")>>, <<Ord("\r")>>, <<Ord("\t")>>, <<0>>, <<31>>, <<Ord("u")>>}

\* the characters around U+007F..U+009F, and characters beyond one byte
StringWide == {<<127>>, <<159>>, <<160>>, <<256>>, <<2479>>, <<65535>>, <<1114111>>}

\* characters that make up what looks like an escape
StringLookalikes == {<<Ord("\\")>>, <<Ord("u")>>, <<Ord("0")>>, <<Ord("n")>>, <<Ord("\"")>>, <<27>>}

StringFamilies == {StringEscaped, StringControls, StringWide, StringLookalikes}

StringWritten == tokenizer # tokenizer_new

StringFeed == ~StringWritten /\ Feed

\* write_string(text), then JsonTokenizer::new on what was written, then next()
StringWriteRead ==
    /\ ~StringWritten
    /\ BindStep(next(tokenizer_new, write_string(text)), LAMBDA r :
            /\ tokenizer' = r.tz
            /\ last' = CallOf(r))
    /\ UNCHANGED <<text, eof, npieces, pieces, stack, obj, obj0, settings, result, calls, other>>

InitString == InitInput(StringFamilies) /\ InitIdleReader

NextString == StringFeed \/ StringWriteRead

SpecString == InitString /\ [][NextString]_vars

(* C21: for every string of Unicode scalar values, what write_string       *)
(* writes for it (the quotes, a backslash escape for '"', '\', '/' and     *)
(* \b \f \n \r \t, \uXXXX for every other control character) is read back  *)
(* by the scanner as a string token holding exactly that string.           *)
C21_StringWriteReadRoundTrip ==
    StringWritten =>
        /\ last.ok
        /\ last.tok = TokText("StringValue", text)
        /\ tokenizer.proxy.reader = [pos |-> Len(write_string(text)) + 1, next_char |-> NoChar]

\* the string of '"', '\', '/', U+0008 and U+000C was written and read back
C21_Witness ==
    /\ StringWritten
    /\ text = <<Ord("\""), Ord("\\"), Ord("/"), 8, 12>>
    /\ last.tok.text = text

---------------------------------------------------------------------------
\* the names of an object's members, in the order of the text
RECURSIVE NamesInOrder(_)
NamesInOrder(members) ==
    IF members = <<>> THEN <<>>
    ELSE <<Head(members).name>> \o NamesInOrder(Tail(members))

\* a sequence of names without the later occurrences of a name
RECURSIVE FirstOccurrences(_, _)
FirstOccurrences(names, seen) ==
    IF names = <<>> THEN <<>>
    ELSE IF Head(names) \in seen THEN FirstOccurrences(Tail(names), seen)
    ELSE <<Head(names)>> \o FirstOccurrences(Tail(names), seen \cup {Head(names)})

\* the keys of the top-level object of a text, in the order of first insertion
InsertionOrder(txt) == FirstOccurrences(NamesInOrder(Denotation(txt).members), {})

(* C22: an Object keeps its keys in the order of their first insertion:    *)
(* the members of a parsed Object are enumerated, and so written by the    *)
(* serializer, in the order in which the parsed text first names them.     *)
C22_InsertionOrderKept ==
    (result.state = "Ok" /\ obj0 = EmptyMap) =>
        \A json \in format(obj) :
            NamesInOrder(Denotation(json).members) = InsertionOrder(text)

---------------------------------------------------------------------------
(* SpecMap: two Maps are filled with insert, and Map::merge_from merges    *)
(* the second into the first.  `obj` is the receiver, `other` the Map      *)
(* handed over, `obj0` the receiver as it was before the merge.            *)

MapKeys == {Chars(<<"a">>), Chars(<<"b">>), Chars(<<"c">>)}

MapValues == {NullValue, BoolValue(TRUE)}

\* the orders in which a HashMap can hand out the keys it holds
KeyOrders(map) ==
    {order \in [1..Cardinality(DOMAIN map) -> DOMAIN map] :
        \A i, j \in DOMAIN order : i # j => order[i] # order[j]}

\* a merge_from that keeps the receiver's value for a key both Maps hold
RECURSIVE merge_from_keeping_receiver(_, _, _)
merge_from_keeping_receiver(map, from, order) ==
    IF order = <<>> THEN map
    ELSE merge_from_keeping_receiver(
             IF Head(order) \in DOMAIN map THEN map
             ELSE map_insert(map, Head(order), from[Head(order)]),
             from, Tail(order))

\* Map::merge_from, other.0.into_iter() giving the entries in the order `order`
RECURSIVE merge_from(_, _, _)
merge_from(map, from, order) ==
    IF order = <<>> THEN map
    ELSE merge_from(map_insert(map, Head(order), from[Head(order)]), from, Tail(order))

MapMerged == result.state = "Ok"

\* map.insert(key, val) on the receiver
MapInsert ==
    /\ ~MapMerged
    /\ \E key \in MapKeys, val \in MapValues : obj' = map_insert(obj, key, val)
    /\ UNCHANGED <<text, eof, npieces, pieces, tokenizer, last, stack, obj0, settings, result,
                   calls, other>>

\* map.insert(key, val) on the Map that will be handed over
MapInsertOther ==
    /\ ~MapMerged
    /\ \E key \in MapKeys, val \in MapValues : other' = map_insert(other, key, val)
    /\ UNCHANGED <<text, eof, npieces, pieces, tokenizer, last, stack, obj, obj0, settings,
                   result, calls>>

MapMergeFrom ==
    /\ ~MapMerged
    /\ \E order \in KeyOrders(other) : obj' = merge_from(obj, other, order)
    /\ obj0' = obj
    /\ result' = Ok
    /\ UNCHANGED <<text, eof, npieces, pieces, tokenizer, last, stack, settings, calls, other>>

InitMap == InitInput({{}}) /\ InitIdleReader

NextMap == MapInsert \/ MapInsertOther \/ MapMergeFrom

SpecMap == InitMap /\ [][NextMap]_vars

(* C23: merge_from is a right-biased union: afterwards every key of the    *)
(* other Map has the other Map's value, every key only the receiver held   *)
(* keeps its value, there is no other key, and the length is the size of   *)
(* the union of the two key sets.                                          *)
C23_MergeFromRightBiasedUnion ==
    MapMerged =>
        /\ DOMAIN obj = DOMAIN obj0 \cup DOMAIN other
        /\ \A key \in DOMAIN other : obj[key] = other[key]
        /\ \A key \in DOMAIN obj0 \ DOMAIN other : obj[key] = obj0[key]
        /\ Cardinality(DOMAIN obj) = Cardinality(DOMAIN obj0 \cup DOMAIN other)

\* {a, b} was merged with {b, c}, the two holding different values for b
C23_Witness ==
    /\ MapMerged
    /\ DOMAIN obj0 = {Chars(<<"a">>), Chars(<<"b">>)}
    /\ DOMAIN other = {Chars(<<"b">>), Chars(<<"c">>)}
    /\ obj0[Chars(<<"b">>)] = NullValue
    /\ other[Chars(<<"b">>)] = BoolValue(TRUE)
    /\ Cardinality(DOMAIN obj) = 3

---------------------------------------------------------------------------
\* the text the scanner has consumed
Consumed == SubSeq(text, 1, ConsumedEnd(tokenizer, text) - 1)

\* the brackets that close the brackets a text leaves open, innermost first
RECURSIVE ClosersFrom(_, _)
ClosersFrom(brs, closers) ==
    IF brs = <<>> THEN closers
    ELSE IF Head(brs) = Ord("{") THEN ClosersFrom(Tail(brs), <<Ord("}")>> \o closers)
    ELSE IF Head(brs) = Ord("[") THEN ClosersFrom(Tail(brs), <<Ord("]")>> \o closers)
    ELSE ClosersFrom(Tail(brs), IF closers = <<>> THEN <<>> ELSE Tail(closers))

Closers(t) == ClosersFrom(BracketsOf(t), <<>>)

\* a text that ends with a token and can be continued to a JSON text: by
\* closing what is open, after a value where one is due
ViableClosedBy(t, closers) ==
    \/ IsJsonText(t \o closers)
    \/ IsJsonText(t \o Chars(<<"1">>) \o closers)
    \/ IsJsonText(t \o Chars(<<":", "1">>) \o closers)

Viable(t) == ViableClosedBy(t, Closers(t))

(* C24: while next() succeeds, what the scanner has consumed can be        *)
(* continued to a JSON text, so the tokens returned are the start of the   *)
(* tokens of a JSON text; once next() has returned an error the text is    *)
(* not a JSON text however it is continued, and what was consumed has no   *)
(* continuation unless the error is the end of the input.  [1: gives 2     *)
(* tokens and then an error, {"a"} 2 tokens and then an error, {"a":1] 3   *)
(* tokens and then an error.                                               *)
C24_ViablePrefix ==
    /\ last.ok => Viable(Consumed)
    /\ ~last.ok => ~IsJsonText(text) /\ (eof \/ ~Viable(Consumed))
    /\ HasRead(Chars(<<"[", "1", ":">>)) => ~last.ok /\ Len(ReturnedTokens) = 2
    /\ HasRead(Chars(<<"{", "\"", "a", "\"", "}">>)) => ~last.ok /\ Len(ReturnedTokens) = 2
    /\ HasRead(Chars(<<"{", "\"", "a", "\"", ":", "1", "]">>)) =>
          ~last.ok /\ Len(ReturnedTokens) = 3

\* {"a":1] was read: three tokens, then the error at ']'
C24_Witness ==
    /\ HasRead(Chars(<<"{", "\"", "a", "\"", ":", "1", "]">>))
    /\ ~last.ok
    /\ Len(ReturnedTokens) = 3

---------------------------------------------------------------------------
(* SpecGrammar: a fresh JsonTokenizer on which next() is called while it   *)
(* succeeds, the text arriving as the scanner asks for it; every call is   *)
(* logged with the tokenizer it was made on.                               *)

GrammarStructure ==
    { Chars(<<"{">>), Chars(<<"}">>), Chars(<<"[">>), Chars(<<"]">>), Chars(<<":">>),
      Chars(<<",">>), Chars(<<"\"", "a", "\"">>), Chars(<<"1">>), Chars(<<" ">>),
      Chars(<<"n", "u", "l", "l">>) }

GrammarLiterals ==
    { Chars(<<"n">>), Chars(<<"u">>), Chars(<<"l">>), Chars(<<"n", "u", "l">>),
      Chars(<<"t", "r", "u", "e">>), Chars(<<"t", "r", "u">>), Chars(<<"t", "h">>), Chars(<<"e">>),
      Chars(<<"f", "a", "l", "s", "e">>), Chars(<<"f", "A", "L", "S", "E">>),
      Chars(<<"h", "o", "o", "d">>), Chars(<<"n", "o">>), Chars(<<"t", "h", "i", "n", "g">>),
      Chars(<<"[">>), Chars(<<" ">>) }

GrammarStrings ==
    { Chars(<<"\"">>), Chars(<<"\\">>), Chars(<<"\\", "u">>), Chars(<<"0", "0">>), Chars(<<"a">>),
      Chars(<<"x">>), Chars(<<"n">>), Chars(<<"u">>), Chars(<<"\t">>), <<0>>, <<31>> }

GrammarNumbers ==
    { Chars(<<"-">>), Chars(<<"0">>), Chars(<<"1">>), Chars(<<".">>), Chars(<<"e">>),
      Chars(<<"+">>), Chars(<<",">>), Chars(<<"[">>), Chars(<<"]">>), Chars(<<" ">>) }

GrammarFamilies == {GrammarStructure, GrammarLiterals, GrammarStrings, GrammarNumbers}

GrammarFeed == StreamRunning /\ NeedsInput /\ Feed

GrammarClose == StreamRunning /\ NeedsInput /\ Close

GrammarNext == StreamRunning /\ Returned("next", Tok("None"), next(tokenizer, text))

InitGrammar == InitInput(GrammarFamilies) /\ InitIdleReader

NextGrammar == GrammarFeed \/ GrammarClose \/ GrammarNext

SpecGrammar == InitGrammar /\ [][NextGrammar]_vars

---------------------------------------------------------------------------
(* The latest call of next(), seen from the text: where the call started   *)
(* to read, and the grammar state and the place it reached by the          *)
(* whitespace and the separators that were in place before its token.      *)

\* the latest call was a next() that read the text
ReadByNext ==
    IF calls = <<>> THEN FALSE
    ELSE /\ Latest.op = "next"
         /\ Latest.before.buffered_token = <<>>
         /\ Latest.before.proxy.state # "READER_EXHAUSTED"

Reached(state, i) == [state |-> state, i |-> i]

RECURSIVE Approach(_, _, _)
Approach(t, state, i) ==
    IF At(t, i) \in JsonWs THEN Approach(t, state, i + 1)
    ELSE IF At(t, i) = Ord(":") /\ state = "OBJECT_BEFORE_COLON"
         THEN Approach(t, "OBJECT_AFTER_COLON", i + 1)
    ELSE IF At(t, i) = Ord(",") /\ state = "OBJECT_AFTER_PROPERTY"
         THEN Approach(t, "OBJECT_AFTER_COMMA", i + 1)
    ELSE IF At(t, i) = Ord(",") /\ state = "ARRAY_AFTER_VALUE"
         THEN Approach(t, "ARRAY_AFTER_COMMA", i + 1)
    ELSE Reached(state, i)

\* the state and the place at which the latest call met its token, the end
\* of the text or a separator out of place
Met == Approach(text, Latest.before.proxy.state, ConsumedEnd(Latest.before, text))

MetChar == At(text, Met.i)

\* the tokenizer of the latest call, had it started in the state and at
\* the place it met
Moved ==
    [Latest.before EXCEPT !.proxy.state = Met.state,
                          !.proxy.reader = [pos |-> Met.i, next_char |-> NoChar]]

(* C25: ':' and ',' are never tokens, they only move the grammar state:    *)
(* ':' from ObjectBeforeColon to ObjectAfterColon, ',' from                *)
(* ObjectAfterProperty to ObjectAfterComma and from ArrayAfterValue to     *)
(* ArrayAfterComma, so that a next() over separators in place returns what *)
(* it returns from the state moved to at the place after them; a separator *)
(* in any other state makes next() return an error and no token.           *)
C25_SeparatorsOnlyMoveState ==
    ReadByNext =>
        IF MetChar = Ord(":")
        THEN ~Latest.ok /\ Latest.err = "Invalid state to read a colon: "
                        /\ Latest.tok = Tok("None")
        ELSE IF MetChar = Ord(",")
        THEN ~Latest.ok /\ Latest.err = "Invalid state to read a comma: "
                        /\ Latest.tok = Tok("None")
        ELSE /\ CallOf(next(Moved, text)) = [ok |-> Latest.ok, err |-> Latest.err, tok |-> Latest.tok]
             /\ next(Moved, text).tz = tokenizer

\* {"a":, was read: the ':' in place moved the state, the ',' is out of place
C25_Witness ==
    /\ ReadByNext
    /\ HasRead(Chars(<<"{", "\"", "a", "\"", ":", ",">>))
    /\ MetChar = Ord(",")
    /\ Met.state = "OBJECT_AFTER_COLON"
    /\ ~Latest.ok

---------------------------------------------------------------------------
SimpleValues == {"Null", "True", "False", "StringValue", "Number"}

\* the grammar state after a value read in a state
StateAfterValue(state) ==
    CASE state = "START_OF_DOCUMENT" -> "EXPECTED_END_OF_DOCUMENT"
      [] state = "OBJECT_AFTER_COLON" -> "OBJECT_AFTER_PROPERTY"
      [] state = "ARRAY_START" -> "ARRAY_AFTER_VALUE"
      [] state = "ARRAY_AFTER_COMMA" -> "ARRAY_AFTER_VALUE"
      [] OTHER -> "none"

\* the latest call met the first character of a simple value
MetSimpleValue ==
    \/ MetChar \in {Ord("n"), Ord("t"), Ord("f"), Ord("-")}
    \/ IsDigit(MetChar)
    \/ MetChar = Ord("\"") /\ Met.state \notin {"OBJECT_START", "OBJECT_AFTER_COMMA"}

(* C26: next() returns a simple value (Null, True, False, StringValue,     *)
(* Number) only when the grammar state at the value is StartOfDocument,    *)
(* ObjectAfterColon, ArrayStart or ArrayAfterComma, and the state is then  *)
(* ExpectedEndOfDocument, ObjectAfterProperty, ArrayAfterValue and         *)
(* ArrayAfterValue; a simple value in any other state makes next() return  *)
(* an error and no token.                                                  *)
C26_SimpleValueStates ==
    ReadByNext =>
        /\ (Latest.ok /\ Latest.tok.type \in SimpleValues) =>
              /\ MetSimpleValue
              /\ StateAfterValue(Met.state) # "none"
              /\ tokenizer.proxy.state = StateAfterValue(Met.state)
        /\ (MetSimpleValue /\ StateAfterValue(Met.state) = "none") =>
              ~Latest.ok /\ Latest.tok = Tok("None")

\* [1 null was read: the Number was returned, the null after it is refused
C26_Witness ==
    /\ ReadByNext
    /\ HasRead(Chars(<<"[", "1", " ", "n", "u", "l", "l">>))
    /\ Met.state = "ARRAY_AFTER_VALUE"
    /\ MetSimpleValue
    /\ ~Latest.ok

---------------------------------------------------------------------------
(* C27: when next() meets the end of the input in state                    *)
(* ExpectedEndOfDocument it returns EndDocument and the state becomes      *)
(* ReaderExhausted; when it meets the end in any other state (the text     *)
(* empty or only whitespace, an object or array open, a Name without its   *)
(* value) it returns the error "Unexpected end of document"; EndDocument   *)
(* is returned in no other case.                                           *)
C27_EndOfInput ==
    ReadByNext =>
        /\ MetChar = NoChar =>
              /\ eof
              /\ IF Met.state = "EXPECTED_END_OF_DOCUMENT"
                 THEN /\ Latest.ok
                      /\ Latest.tok = Tok("EndDocument")
                      /\ tokenizer.proxy.state = "READER_EXHAUSTED"
                 ELSE /\ ~Latest.ok
                      /\ Latest.err = "Unexpected end of document in state: "
                      /\ Latest.tok = Tok("None")
        /\ (Latest.ok /\ Latest.tok.type = "EndDocument") =>
              MetChar = NoChar /\ Met.state = "EXPECTED_END_OF_DOCUMENT"

\* the input ended after {"a", a Name without its value
C27_Witness ==
    /\ ReadByNext
    /\ eof
    /\ MetChar = NoChar
    /\ text = Chars(<<"{", "\"", "a", "\"">>)
    /\ Met.state = "OBJECT_BEFORE_COLON"
    /\ ~Latest.ok

---------------------------------------------------------------------------
NameStates == {"OBJECT_START", "OBJECT_AFTER_COMMA"}

\* a token sequence, or the start of one, in which Names are placed as in a
\* JSON text: open is the containers open, innermost first, and due says
\* that the innermost object has a Name whose value has not come
RECURSIVE NamesPlacedIn(_, _, _)
NamesPlacedIn(toks, open, due) ==
    IF toks = <<>> THEN TRUE
    ELSE CASE Head(toks).type = "Name" ->
                /\ open # <<>>
                /\ Head(open) = "Object"
                /\ ~due
                /\ NamesPlacedIn(Tail(toks), open, TRUE)
           [] Head(toks).type \in SimpleValues ->
                /\ (open # <<>> /\ Head(open) = "Object") => due
                /\ NamesPlacedIn(Tail(toks), open, FALSE)
           [] Head(toks).type \in {"StartObject", "StartArray"} ->
                /\ (open # <<>> /\ Head(open) = "Object") => due
                /\ NamesPlacedIn(Tail(toks),
                                 <<IF Head(toks).type = "StartObject" THEN "Object" ELSE "Array">> \o open,
                                 FALSE)
           [] Head(toks).type \in {"EndObject", "EndArray"} ->
                /\ open # <<>>
                /\ ~due
                /\ NamesPlacedIn(Tail(toks), Tail(open), FALSE)
           [] OTHER -> NamesPlacedIn(Tail(toks), open, due)

NamesPlaced(toks) == NamesPlacedIn(toks, <<>>, FALSE)

(* C28: next() returns a quoted string as a Name exactly when the grammar  *)
(* state at its opening quote is ObjectStart or ObjectAfterComma, and the  *)
(* state is then ObjectBeforeColon; in a state that accepts a value it     *)
(* returns it as a StringValue; in every other state it returns an error.  *)
(* So in the tokens returned a Name comes only directly inside an object,  *)
(* and each Name is followed by exactly one value before the next Name or  *)
(* the EndObject.                                                          *)
C28_NameOrStringValue ==
    /\ ReadByNext =>
        /\ (Latest.ok /\ Latest.tok.type = "Name") =>
              /\ MetChar = Ord("\"")
              /\ Met.state \in NameStates
              /\ tokenizer.proxy.state = "OBJECT_BEFORE_COLON"
        /\ (Latest.ok /\ MetChar = Ord("\"")) =>
              /\ Met.state \in NameStates => Latest.tok.type = "Name"
              /\ Met.state \notin NameStates =>
                    Latest.tok.type = "StringValue" /\ StateAfterValue(Met.state) # "none"
        /\ (/\ MetChar = Ord("\"")
            /\ Met.state \notin NameStates
            /\ StateAfterValue(Met.state) = "none") =>
              ~Latest.ok /\ Latest.tok = Tok("None")
    /\ NamesPlaced(ReturnedTokens)

\* {"a":"a" was read: the first string is a Name, the second a StringValue
C28_Witness ==
    /\ ReadByNext
    /\ text = Chars(<<"{", "\"", "a", "\"", ":", "\"", "a", "\"">>)
    /\ Latest.ok
    /\ Latest.tok.type = "StringValue"
    /\ Met.state = "OBJECT_AFTER_COLON"
    /\ Len(ReturnedTokens) = 3
    /\ ReturnedTokens[2].type = "Name"
---------------------------------------------------------------------------
\* the keyword that starts with a letter, and its token
Keyword(c) ==
    CASE c = Ord("n") -> Chars(<<"n", "u", "l", "l">>)
      [] c = Ord("t") -> Chars(<<"t", "r", "u", "e">>)
      [] c = Ord("f") -> Chars(<<"f", "a", "l", "s", "e">>)
      [] OTHER -> <<>>

KeywordToken(c) ==
    CASE c = Ord("n") -> Tok("Null")
      [] c = Ord("t") -> Tok("True")
      [] c = Ord("f") -> Tok("False")
      [] OTHER -> Tok("None")

\* the text has the keyword s at index i
KeywordAt(s, i) ==
    /\ s # <<>>
    /\ Len(text) >= i + Len(s) - 1
    /\ SubSeq(text, i, i + Len(s) - 1) = s

(* C29: when next() meets an 'n', 't' or 'f' it returns Null, True or      *)
(* False only if the text there is exactly null, true or false; if a       *)
(* character differs (in case too) or the text ends before the keyword is  *)
(* complete, as in nul, nothing, truth and fALSEhood, it returns an error  *)
(* and no token.                                                           *)
C29_LiteralsMatchedExactly ==
    ReadByNext =>
        /\ MetChar \in {Ord("n"), Ord("t"), Ord("f")} =>
              IF KeywordAt(Keyword(MetChar), Met.i)
              THEN /\ Latest.ok => Latest.tok = KeywordToken(MetChar)
                   /\ StateAfterValue(Met.state) # "none" => Latest.ok
              ELSE /\ ~Latest.ok
                   /\ Latest.tok = Tok("None")
                   /\ Latest.err \in {"Unexpected end of text while reading literal token",
                                      "Unexpected character while reading literal token"}
        /\ (Latest.ok /\ Latest.tok.type \in {"Null", "True", "False"}) =>
              /\ KeywordAt(Keyword(MetChar), Met.i)
              /\ Latest.tok = KeywordToken(MetChar)

\* fALSE was read: the 'A' is not the 'a' of false
C29_Witness ==
    /\ ReadByNext
    /\ text = Chars(<<"f", "A", "L", "S", "E">>)
    /\ MetChar = Ord("f")
    /\ ~Latest.ok
    /\ Latest.err = "Unexpected character while reading literal token"

---------------------------------------------------------------------------
HexDigits ==
    {Ord("0"), Ord("1"), Ord("2"), Ord("3"), Ord("4"), Ord("5"), Ord("6"), Ord("7"), Ord("8"),
     Ord("9"), Ord("a"), Ord("b"), Ord("c"), Ord("d"), Ord("e"), Ord("f"), Ord("A"), 66, 67, 68,
     Ord("E"), Ord("F")}

SimpleEscapes ==
    {Ord("n"), Ord("\\"), Ord("b"), Ord("f"), Ord("r"), Ord("t"), Ord("\""), Ord("/")}

\* what is wrong with the hex digits of a \u escape, left of them to come at i
RECURSIVE HexFault(_, _, _)
HexFault(t, i, left) ==
    IF left = 0 THEN "none"
    ELSE IF At(t, i) = NoChar THEN "end"
    ELSE IF At(t, i) \notin HexDigits THEN "hex"
    ELSE HexFault(t, i + 1, left - 1)

\* what is wrong with the string whose characters start at i, after the quote
RECURSIVE StringFault(_, _)
StringFault(t, i) ==
    IF At(t, i) = NoChar THEN "end"
    ELSE IF At(t, i) < 32 THEN "control"
    ELSE IF At(t, i) = Ord("\"") THEN "none"
    ELSE IF At(t, i) # Ord("\\") THEN StringFault(t, i + 1)
    ELSE IF At(t, i + 1) = NoChar THEN "end"
    ELSE IF At(t, i + 1) \in SimpleEscapes THEN StringFault(t, i + 2)
    ELSE IF At(t, i + 1) # Ord("u") THEN "escape"
    ELSE IF HexFault(t, i + 2, 4) # "none" THEN HexFault(t, i + 2, 4)
    ELSE StringFault(t, i + 6)

\* the errors of the scanner for a fault
FaultErrors(fault) ==
    CASE fault = "control" -> {"Invalid character in string literal"}
      [] fault = "escape" -> {"Invalid character in character escape sequence"}
      [] fault = "hex" -> {"Invalid character in escape sequence"}
      [] fault = "end" -> {"Unexpected end of text while reading string",
                           "Unexpected end of text while reading character escape sequence",
                           "Unexpected end of text while reading Unicode escape sequence"}
      [] OTHER -> {}

(* C30: next() returns an error and no token for a string that has, inside *)
(* its quotes, a raw character below 0x20, a backslash followed by a       *)
(* character other than n \ b f r t " / u, a \u followed by a character    *)
(* that is not a hex digit or by fewer than four hex digits, or the end of *)
(* the text before the closing quote or within an escape.                  *)
C30_StringErrors ==
    (ReadByNext /\ MetChar = Ord("\"") /\ StringFault(text, Met.i + 1) # "none") =>
        /\ ~Latest.ok
        /\ Latest.tok = Tok("None")
        /\ Latest.err \in FaultErrors(StringFault(text, Met.i + 1))

\* "\u00" was read: the closing quote comes where the third hex digit is due
C30_Witness ==
    /\ ReadByNext
    /\ text = Chars(<<"\"", "\\", "u", "0", "0", "\"">>)
    /\ StringFault(text, 2) = "hex"
    /\ ~Latest.ok

---------------------------------------------------------------------------
\* the index after the token the latest call returned, by the grammar of
\* the token: it starts at the place the call met
TokenEnd ==
    CASE Latest.tok.type \in {"StartObject", "EndObject", "StartArray", "EndArray"} -> Met.i + 1
      [] Latest.tok.type \in {"Name", "StringValue"} -> JString(text, Met.i)
      [] Latest.tok.type \in {"Null", "True", "False"} -> Met.i + Len(Keyword(MetChar))
      [] Latest.tok.type = "Number" -> JNumber(text, Met.i)
      [] OTHER -> Len(text) + 1

TypesOf(toks) == [k \in 1..Len(toks) |-> toks[k].type]

\* the tokens returned start with tokens of the types
ReturnedStartsWith(types) ==
    /\ Len(ReturnedTokens) >= Len(types)
    /\ TypesOf(SubSeq(ReturnedTokens, 1, Len(types))) = types

(* C31: when next() returns a token the reader stands directly after the   *)
(* token's last character and holds no character, except after a Number    *)
(* that a character ended: that one character is read and held, to be the  *)
(* first character of the following scan.  So a separator or bracket       *)
(* directly after a number is seen: [1,1] and {"a":1} give all their       *)
(* tokens.                                                                 *)
C31_LazyScanLosesNoCharacter ==
    /\ (ReadByNext /\ Latest.ok) =>
          /\ Latest.tok.type # "EndDocument" => TokenEnd > Met.i
          /\ IF Latest.tok.type = "Number" /\ TokenEnd <= Len(text)
             THEN tokenizer.proxy.reader = [pos |-> TokenEnd + 1, next_char |-> text[TokenEnd]]
             ELSE IF Latest.tok.type = "EndDocument" \/ Latest.tok.type = "Number"
             THEN /\ eof
                  /\ tokenizer.proxy.reader.next_char = NoChar
                  /\ tokenizer.proxy.reader.pos > Len(text)
             ELSE tokenizer.proxy.reader = [pos |-> TokenEnd, next_char |-> NoChar]
    /\ HasRead(Chars(<<"[", "1", ",", "1", "]">>)) =>
          ReturnedStartsWith(<<"StartArray", "Number", "Number", "EndArray">>)
    /\ HasRead(Chars(<<"{", "\"", "a", "\"", ":", "1", "}">>)) =>
          ReturnedStartsWith(<<"StartObject", "Name", "Number", "EndObject">>)

\* {"a":1} was read: the '}' that ended the number was held and gave EndObject
C31_Witness ==
    /\ ReadByNext
    /\ HasRead(Chars(<<"{", "\"", "a", "\"", ":", "1", "}">>))
    /\ Latest.tok = Tok("EndObject")
    /\ Latest.before.proxy.reader = [pos |-> 8, next_char |-> Ord("}")]

---------------------------------------------------------------------------
(* SpecDriver: a caller that goes on after errors.  On a fresh             *)
(* JsonTokenizer it calls next(), push_back() with the token next()        *)
(* returned most recently, and skip_value() at any point, in any order and *)
(* whatever they return.  last is the outcome of the latest next() with    *)
(* the token most recently returned; stack holds the activation of         *)
(* skip_value while its loop runs, one turn a step.                        *)

DriverObjects ==
    { Chars(<<"{">>), Chars(<<"}">>), Chars(<<"\"", "a", "\"">>), Chars(<<":">>), Chars(<<"0">>) }

DriverArrays ==
    { Chars(<<"[">>), Chars(<<"]">>), Chars(<<",">>), Chars(<<"0">>), Chars(<<"{">>) }

DriverMembers ==
    { Chars(<<"{">>), Chars(<<"}">>), Chars(<<"\"", "a", "\"">>), Chars(<<":", "0">>), Chars(<<",">>) }

DriverNumbers ==
    { Chars(<<"-">>), Chars(<<"1">>), Chars(<<".">>), Chars(<<"e">>), Chars(<<",">>) }

DriverFamilies == {DriverObjects, DriverArrays, DriverMembers, DriverNumbers}

SkipValueFrame(depth) == [fn |-> "skip_value", depth |-> depth]

\* the outcome of a next(), and the token returned most recently
Held(r) == [ok |-> r.ok, err |-> r.err, tok |-> IF r.ok THEN r.tok ELSE last.tok]

DriverFeed == NeedsInput /\ Feed

DriverClose == NeedsInput /\ Close

DriverNext ==
    /\ stack = <<>>
    /\ BindStep(next(tokenizer, text), LAMBDA r :
            /\ eof \/ ~Starved(r.tz, text)
            /\ tokenizer' = r.tz
            /\ last' = Held(r))
    /\ UNCHANGED <<text, eof, npieces, pieces, stack, obj, obj0, settings, result, calls, other>>

DriverPushBack ==
    /\ stack = <<>>
    /\ last.tok # Tok("None")
    /\ tokenizer' = push_back(tokenizer, last.tok).tz
    /\ UNCHANGED <<text, eof, npieces, pieces, last, stack, obj, obj0, settings, result, calls,
                   other>>

\* skip_value is called: depth = 0
DriverSkipValue ==
    /\ stack = <<>>
    /\ stack' = <<SkipValueFrame(0)>>
    /\ UNCHANGED <<text, eof, npieces, pieces, tokenizer, last, obj, obj0, settings, result, calls,
                   other>>

\* one turn of the loop of skip_value
DriverSkipValueLoop ==
    /\ stack # <<>>
    /\ BindStep(next(tokenizer, text), LAMBDA r :
            /\ eof \/ ~Starved(r.tz, text)
            /\ tokenizer' = r.tz
            /\ last' = Held(r)
            /\ stack' = IF ~r.ok THEN <<>>
                        ELSE IF SkipDepthAfter(stack[1].depth, r.tok) = 0 THEN <<>>
                        ELSE <<SkipValueFrame(SkipDepthAfter(stack[1].depth, r.tok))>>)
    /\ UNCHANGED <<text, eof, npieces, pieces, obj, obj0, settings, result, calls, other>>

InitDriver == InitInput(DriverFamilies) /\ InitIdleReader

NextDriver ==
    \/ DriverFeed
    \/ DriverClose
    \/ DriverNext
    \/ DriverPushBack
    \/ DriverSkipValue
    \/ DriverSkipValueLoop

SpecDriver == InitDriver /\ [][NextDriver]_vars

---------------------------------------------------------------------------
(* C32: the container stack of the scanner always has at least one entry,  *)
(* and its bottom entry, and no other, is Document: whatever is called on  *)
(* whatever input, errors included, the Document entry is never popped.    *)
C32_DocumentNeverPopped ==
    /\ Len(tokenizer.proxy.container_stack) >= 1
    /\ tokenizer.proxy.container_stack[1] = "Document"
    /\ \A k \in 2..Len(tokenizer.proxy.container_stack) :
          tokenizer.proxy.container_stack[k] \in {"Object", "Array"}

\* {}} was read: the second '}' found only Document on the stack and was refused
C32_Witness ==
    /\ HasRead(Chars(<<"{", "}", "}">>))
    /\ ~last.ok
    /\ last.tok = Tok("EndObject")
    /\ tokenizer.proxy.container_stack = <<"Document">>

---------------------------------------------------------------------------
ObjectStates ==
    {"OBJECT_START", "OBJECT_BEFORE_COLON", "OBJECT_AFTER_COLON", "OBJECT_AFTER_PROPERTY",
     "OBJECT_AFTER_COMMA"}

ArrayStates == {"ARRAY_START", "ARRAY_AFTER_VALUE", "ARRAY_AFTER_COMMA"}

DocumentStates == {"START_OF_DOCUMENT", "EXPECTED_END_OF_DOCUMENT", "READER_EXHAUSTED"}

TopContainer(tk) == tk.container_stack[Len(tk.container_stack)]

(* C33: the grammar state and the container stack always agree: the state  *)
(* is an Object state iff the top of the stack is Object, an Array state   *)
(* iff the top is Array, a Document state iff the stack is exactly         *)
(* [Document]; and the state is always one of the eleven states.           *)
C33_StateAgreesWithStack ==
    /\ tokenizer.proxy.state \in ObjectStates \cup ArrayStates \cup DocumentStates
    /\ Len(tokenizer.proxy.container_stack) >= 1
    /\ tokenizer.proxy.state \in ObjectStates <=> TopContainer(tokenizer.proxy) = "Object"
    /\ tokenizer.proxy.state \in ArrayStates <=> TopContainer(tokenizer.proxy) = "Array"
    /\ tokenizer.proxy.state \in DocumentStates <=>
          tokenizer.proxy.container_stack = <<"Document">>

\* [{] was read: the ']' is refused in the object, which stays open
C33_Witness ==
    /\ HasRead(Chars(<<"[", "{", "]">>))
    /\ ~last.ok
    /\ tokenizer.proxy.state = "OBJECT_START"
    /\ tokenizer.proxy.container_stack = <<"Document", "Array", "Object">>

---------------------------------------------------------------------------
(* C34: an error is terminal: once next() has returned an error, every     *)
(* later next() on the same tokenizer returns an error too (no token is    *)
(* buffered, so that the later next() reads the text).                     *)
C34_ErrorTerminal ==
    [][(~last.ok /\ tokenizer.buffered_token = <<>>) => ~last'.ok]_vars

---------------------------------------------------------------------------
(* C35: object_depth never goes below 0, whatever the input and whatever   *)
(* the order of the calls of next() and of push_back() with the token      *)
(* next() returned most recently: the subtractions of next() for an        *)
(* EndObject and of push_back() for a StartObject are never made at depth  *)
(* 0; and object_depth is 0 when EndDocument is returned.                  *)
C35_ObjectDepthNeverUnderflows ==
    /\ tokenizer.object_depth >= 0
    /\ (last.ok /\ last.tok = Tok("EndDocument")) => tokenizer.object_depth = 0

\* the StartObject of { was pushed back at depth 1
C35_Witness ==
    /\ text = Chars(<<"{">>)
    /\ tokenizer.buffered_token = <<Tok("StartObject")>>
    /\ tokenizer.object_depth = 0
    /\ OpenObjects(tokenizer) = 1

---------------------------------------------------------------------------
(* C39: no next() on any input returns the error of PushBackReader's       *)
(* push_back, "Cannot push back when already buffering a character":       *)
(* whenever read_number or read_exp push a character back, the reader      *)
(* holds none; and the character the reader holds between two scans is the *)
(* one that ended a number, never a digit.                                 *)
C39_CharacterPushBackNeverFails ==
    /\ last.err # "Cannot push back when already buffering a character"
    /\ tokenizer.proxy.reader.next_char # NoChar =>
          /\ ~IsDigit(tokenizer.proxy.reader.next_char)
          /\ tokenizer.proxy.reader.pos >= 2
          /\ tokenizer.proxy.reader.next_char = At(text, tokenizer.proxy.reader.pos - 1)

\* 1e1, was read: read_number, read_exp and read_number again pushed a character back
C39_Witness ==
    /\ text = Chars(<<"1", "e", "1", ",">>)
    /\ last.ok
    /\ last.tok = TokText("Number", Chars(<<"1", "E", "1">>))
    /\ tokenizer.proxy.reader = [pos |-> 5, next_char |-> Ord(",")]

---------------------------------------------------------------------------
(* C38: during a parse on any input no push_back of the reader fails:      *)
(* parse never returns "Can't push back twice", the tokenizer buffers at   *)
(* most one token, and a token is buffered only for the activation that    *)
(* parse_value_type (a StartObject) or parse_array (the first token of an  *)
(* element) has just called, which reads it back first.                    *)
C38_TokenPushBackNeverFails ==
    /\ result.err.msg # "Can't push back twice"
    /\ last.err # "Can't push back twice"
    /\ Len(tokenizer.buffered_token) <= 1
    /\ tokenizer.buffered_token # <<>> =>
          /\ Running
          /\ \/ Executing("parse_object", "enter") /\ tokenizer.buffered_token[1] = Tok("StartObject")
             \/ Executing("parse_value_type", "next") /\ Len(stack) >= 2
                    /\ stack[Len(stack) - 1].fn = "parse_array"

\* {"a":[{ : parse_array pushed the StartObject back, parse_value_type read it
\* and pushed it back again for parse_object
C38_Witness ==
    /\ text = Chars(<<"{", "\"", "a", "\"", ":", "[", "{">>)
    /\ tokenizer.buffered_token = <<Tok("StartObject")>>
    /\ Executing("parse_object", "enter")
    /\ Len(stack) >= 3
    /\ stack[Len(stack) - 1].fn = "parse_value_type"
    /\ stack[Len(stack) - 2].fn = "parse_array"

---------------------------------------------------------------------------
(* C40: the reader never gets a token out of grammar position: on every    *)
(* input parse returns none of "Unexpected token type", "An error Token    *)
(* occurred while parsing single value: " and "Expected end of JSON after  *)
(* object", no next() returns the fallback error of                        *)
(* validate_and_modify_state_for_value, a parse that returns Ok has read   *)
(* EndDocument last, and a scanner error is what parse returns.            *)
DefensiveErrors ==
    { "Unexpected token type ",
      "An error Token occurred while parsing single value: ",
      "Expected end of JSON after object" }

C40_DefensiveBranchesUnreachable ==
    /\ result.err.msg \notin DefensiveErrors
    /\ last.err # "ValidateAndModifyStateForValue does not handle all value states (and should)"
    /\ result.state = "Ok" => last.ok /\ last.tok = Tok("EndDocument")
    /\ ~last.ok => result.state = "Err" /\ result.err = Error(last.err)

\* {}{ : after the object closed, the scanner rejects the brace before parse
\* can compare a token with EndDocument
C40_Witness ==
    /\ text = Chars(<<"{", "}", "{">>)
    /\ result.state = "Err"
    /\ ~last.ok
    /\ result.err = Error(last.err)
    /\ tokenizer.proxy.state = "EXPECTED_END_OF_DOCUMENT"

---------------------------------------------------------------------------
(* C37: when merge returns Ok on a Map that held entries, the Map is the   *)
(* old Map overwritten key by key with what the same text gives on an      *)
(* empty Map: a key the document does not have keeps its value, a key the  *)
(* document has maps to the value parsed from the document, old members of *)
(* an Object under that key are gone, and no other key appears.            *)
FreshlyParsed == parse(EmptyMap, settings, text)

C37_MergeOverwritesShallowly ==
    (result.state = "Ok" /\ obj0 # EmptyMap) =>
        /\ FreshlyParsed.result.state = "Ok"
        /\ DOMAIN obj = DOMAIN obj0 \cup DOMAIN FreshlyParsed.obj
        /\ \A key \in DOMAIN obj0 \ DOMAIN FreshlyParsed.obj : obj[key] = obj0[key]
        /\ \A key \in DOMAIN FreshlyParsed.obj : obj[key] = FreshlyParsed.obj[key]

\* {"a":{"a":1}} merged into a Map whose "a" was the Object {"b":null}
C37_Witness ==
    /\ result.state = "Ok"
    /\ text = Chars(<<"{", "\"", "a", "\"", ":", "{", "\"", "a", "\"", ":", "1", "}", "}">>)
    /\ obj0 = NestedMap
    /\ obj[Chars(<<"a">>)] = ObjectValue(Chars(<<"a">>) :> I64Value([neg |-> FALSE, mag |-> <<1>>]))
    /\ obj[Chars(<<"c">>)] = BoolValue(TRUE)
    /\ DOMAIN obj = {Chars(<<"a">>), Chars(<<"c">>)}

---------------------------------------------------------------------------
(* SpecTermination: a text that is finite and arrives piece by piece is    *)
(* handed either to a JsonTokenizer, on which next() and skip_value() are  *)
(* called at any position, or to Map::merge.  A loop that has started goes *)
(* on whenever it can, and the text goes on or ends whenever the scanner   *)
(* waits for it.                                                           *)

TermArrays == { Chars(<<"[">>), Chars(<<"]">>), Chars(<<"1">>), Chars(<<",">>) }

TermObjects ==
    { Chars(<<"{", "\"", "a", "\"", ":">>), Chars(<<"}">>), Chars(<<"[">>), Chars(<<"]">>),
      Chars(<<"1">>) }

TermFamilies == {TermArrays, TermObjects}

TermFeed == result.state \in {"idle", "pending"} /\ NeedsInput /\ Feed

TermClose == result.state \in {"idle", "pending"} /\ NeedsInput /\ Close

TermNext == result.state = "idle" /\ DriverNext

TermSkipValue == result.state = "idle" /\ DriverSkipValue

TermSkipValueLoop == result.state = "idle" /\ DriverSkipValueLoop

\* Map::merge on the text, by a caller that made no tokenizer of its own
TermMerge ==
    /\ stack = <<>>
    /\ last = NoCall
    /\ tokenizer = tokenizer_new
    /\ merge_with_settings

TermParse ==
    \/ ParseObjectEnter
    \/ ParseObjectLoop
    \/ ParseValueType
    \/ ParseArray
    \/ ParseEnd

InitTermination == InitInput(TermFamilies) /\ InitIdleReader

NextTermination ==
    \/ TermFeed
    \/ TermClose
    \/ TermNext
    \/ TermSkipValue
    \/ TermSkipValueLoop
    \/ TermMerge
    \/ TermParse

SpecTermination ==
    /\ InitTermination
    /\ [][NextTermination]_vars
    /\ WF_vars(TermFeed \/ TermClose)
    /\ WF_vars(TermSkipValueLoop)
    /\ WF_vars(TermParse)

---------------------------------------------------------------------------
(* C36: on a finite text every loop returns.  A skip_value that has begun, *)
(* at whatever position, returns, and a parse that has begun returns Ok or *)
(* Err; the scanner never reads past the end of the text; and a turn of a  *)
(* loop after which the loop goes on has taken the buffered token, has     *)
(* consumed at least one character, or has met the end of the text, which  *)
(* the scanner meets once.                                                 *)

\* the characters the scanner has consumed: those read and not pushed back
CharactersConsumed(tz) ==
    tz.proxy.reader.pos - (IF tz.proxy.reader.next_char # NoChar THEN 1 ELSE 0)

\* a turn of the loop of skip_value or of a loop of the reader after which the loop goes on
LoopGoesOn ==
    /\ stack # <<>>
    /\ stack' # <<>>
    /\ <<text, eof>>' = <<text, eof>>
    /\ vars' # vars

C36_Termination ==
    /\ (stack # <<>>) ~> (stack = <<>>)
    /\ (result.state = "pending") ~> (result.state \in {"Ok", "Err"})
    /\ [](tokenizer.proxy.reader.pos <= Len(text) + 2)
    /\ [][LoopGoesOn =>
            \/ tokenizer.buffered_token # <<>>
            \/ CharactersConsumed(tokenizer') > CharactersConsumed(tokenizer)
            \/ /\ tokenizer.proxy.state # "READER_EXHAUSTED"
               /\ tokenizer'.proxy.state = "READER_EXHAUSTED"]_vars

\* skip_value was called in [1 before the ] and counts -1 open containers at
\* the end of the document: the following next() ends it with an error
C36_Witness ==
    /\ text = Chars(<<"[", "1", "]">>)
    /\ eof
    /\ stack = <<SkipValueFrame(-1)>>
    /\ last.tok = Tok("EndDocument")
    /\ tokenizer.proxy.state = "READER_EXHAUSTED"

=============================================================================
